---------------------------- MODULE Spec2Model ----------------------------
(***************************************************************************)
(* Model of the preference-MAC verifier of test-data/analyze-json.py.      *)
(*                                                                         *)
(* JSON values are tagged records.  A dict is the sequence of its          *)
(* <<key, value>> entries in insertion order (Python dicts and             *)
(* OrderedDicts keep insertion order, and json.dumps writes entries in     *)
(* that order); its keys are pairwise different.  Python's None and        *)
(* JSON's null are the same object, PyNone.  Strings are TLA+ strings;     *)
(* the canonical string is built character by character as json.dumps      *)
(* builds it.  Numbers are Python ints (bool is a subclass of int).        *)
(*                                                                         *)
(* HMAC-SHA256 is modelled symbolically: the digest of (key, message) is   *)
(* a term that records the key bytes and the message bytes, so that two    *)
(* digests are equal exactly when key and message are equal (no            *)
(* collisions), together with the length and the letter case of its        *)
(* hexadecimal rendering.                                                  *)
(***************************************************************************)
EXTENDS Integers, Sequences, FiniteSets, TLC

VARIABLES
    pc,              \* position of the running script
    seed,            \* FILE_SEED (analyze-json.py:25) / parameter seed
    device_id,       \* DEVICE_ID (analyze-json.py:24) / parameter device_id
    path,            \* the path being evaluated
    value,           \* the value being evaluated
    value_json,      \* local value_json of calculate_mac
    message,         \* local message of calculate_mac
    calculated_mac,  \* result of calculate_mac
    secure_prefs,    \* the loaded secure-preferences.json (analyze-json.py:21-22)
    file_macs,       \* browser_state['file_macs'], its items in order
    filter_path,     \* local filter_path of main
    idx,             \* number of items the loop of main has taken
    passed,          \* local passed of main
    failed,          \* local failed of main
    failed_items,    \* local failed_items of main
    output,          \* what the script has printed, one entry per report line
    expected_mac,    \* EXPECTED_MAC (find-mac-keys.py:31)
    test_val,        \* global test_val of find-mac-keys.py
    mac,             \* global mac of find-mac-keys.py
    candidates,      \* history: the candidates evaluated so far, in order
    heap,            \* the objects of the interpreter, each at its identity
    ref              \* identity of the object the last operation returned

calc_vars  == <<seed, device_id, path, value, value_json, message, calculated_mac>>
batch_vars == <<secure_prefs, file_macs, filter_path, idx, passed, failed,
                failed_items, output>>
search_vars == <<expected_mac, test_val, mac, candidates, heap, ref>>
vars == <<pc, calc_vars, batch_vars, search_vars>>

\* The value of a MAC variable before any MAC is computed.
NoMac == [key |-> <<>>, msg |-> <<>>, hexlen |-> 0, hexcase |-> "none"]

\* The variables of find-mac-keys.py while another script runs.
SearchIdle ==
    /\ expected_mac = NoMac
    /\ test_val = [t |-> "none"]
    /\ mac = NoMac
    /\ candidates = <<>>
    /\ heap = <<>>
    /\ ref = 0

-----------------------------------------------------------------------------
(* Bounds of the model *)

\* Largest number of nodes (leaves and containers) of a drawn value tree.
MaxNodes == 4

\* Largest number of entries of the drawn file_macs table.
MaxRecords == 4

-----------------------------------------------------------------------------
(* Characters and strings *)

\* The printable ASCII characters in code-point order: U+0020 .. U+005F and
\* U+0061 .. U+007E (U+0060 cannot be written in a TLA+ string and is left out).
AsciiLow  == " !\"#$%&'()*+,-./0123456789:;<=>?@ABCDEFGHIJKLMNOPQRSTUVWXYZ[\\]^_"
AsciiHigh == "abcdefghijklmnopqrstuvwxyz{|}~"

CharAt(s, i) == SubSeq(s, i, i)

\* ord(c) for a printable ASCII character and for U+00E9, the character
\* outside ASCII that the drawn values hold.
CharCode ==
    [c \in {CharAt(AsciiLow, i) : i \in 1..Len(AsciiLow)} \cup
           {CharAt(AsciiHigh, i) : i \in 1..Len(AsciiHigh)} \cup {"é"} |->
        IF c = "é" THEN 233
        ELSE IF \E i \in 1..Len(AsciiLow) : CharAt(AsciiLow, i) = c
        THEN 31 + (CHOOSE i \in 1..Len(AsciiLow) : CharAt(AsciiLow, i) = c)
        ELSE 96 + (CHOOSE i \in 1..Len(AsciiHigh) : CharAt(AsciiHigh, i) = c)]

\* The UTF-8 bytes of a code point below U+0800: one byte for ASCII, two
\* bytes otherwise.
Utf8Char(n) == IF n < 128 THEN <<n>> ELSE <<192 + (n \div 64), 128 + (n % 64)>>

\* str.encode('utf-8'): the bytes of the characters, in order (the string is
\* encoded by halves).
RECURSIVE Utf8Encode(_)
Utf8Encode(s) ==
    IF Len(s) = 0 THEN <<>>
    ELSE IF Len(s) = 1 THEN Utf8Char(CharCode[s])
    ELSE Utf8Encode(SubSeq(s, 1, Len(s) \div 2)) \o
         Utf8Encode(SubSeq(s, (Len(s) \div 2) + 1, Len(s)))

\* Python's str < str: lexicographic by code point, a proper prefix first.
RECURSIVE StrLess(_, _)
StrLess(a, b) ==
    IF Len(b) = 0 THEN FALSE
    ELSE IF Len(a) = 0 THEN TRUE
    ELSE IF Head(a) = Head(b) THEN StrLess(Tail(a), Tail(b))
    ELSE CharCode[Head(a)] < CharCode[Head(b)]

\* sep.join(parts)
RECURSIVE Join(_, _)
Join(parts, sep) ==
    IF Len(parts) = 0 THEN ""
    ELSE IF Len(parts) = 1 THEN parts[1]
    ELSE parts[1] \o sep \o Join(Tail(parts), sep)

Digits == "0123456789"

\* str(n) / int.__repr__ for an int n.
RECURSIVE NatToStr(_)
NatToStr(n) ==
    IF n < 10 THEN CharAt(Digits, n + 1)
    ELSE NatToStr(n \div 10) \o CharAt(Digits, (n % 10) + 1)

IntToStr(n) == IF n < 0 THEN "-" \o NatToStr(-n) ELSE NatToStr(n)

-----------------------------------------------------------------------------
(* Values *)

PyNone      == [t |-> "none"]
PyBool(b)   == [t |-> "bool", b |-> b]
PyInt(n)    == [t |-> "int", n |-> n]
PyStr(s)    == [t |-> "str", s |-> s]
PyList(xs)  == [t |-> "list", items |-> xs]
PyDict(es)  == [t |-> "dict", entries |-> es]

\* isinstance(v, dict), isinstance(v, list), ...; bool is a subclass of int.
IsDict(v) == v.t = "dict"
IsList(v) == v.t = "list"
IsBool(v) == v.t = "bool"
IsStr(v)  == v.t = "str"
IsInt(v)  == v.t \in {"int", "bool"}

\* obj.keys(), in insertion order.
DictKeys(v) == [i \in 1..Len(v.entries) |-> v.entries[i][1]]

\* obj[k] for a key k of the dict.
DictItem(v, k) ==
    v.entries[CHOOSE i \in 1..Len(v.entries) : v.entries[i][1] = k][2]

HasKey(v, k) == \E i \in 1..Len(v.entries) : v.entries[i][1] = k

\* sorted(keys): ascending by StrLess (the keys of a dict are distinct).
RECURSIVE SortedKeys(_)
SortedKeys(ks) ==
    IF Len(ks) = 0 THEN <<>>
    ELSE LET m == CHOOSE i \in 1..Len(ks) :
                    \A j \in 1..Len(ks) : j = i \/ StrLess(ks[i], ks[j])
             rest == [j \in 1..(Len(ks) - 1) |-> IF j < m THEN ks[j] ELSE ks[j + 1]]
         IN  <<ks[m]>> \o SortedKeys(rest)

-----------------------------------------------------------------------------
(* prune_empty_recursive, analyze-json.py:36-58 *)

RECURSIVE prune_empty_recursive(_)

\* Mutant of PruneKeyOrder: the keys are visited in insertion order.
PruneKeyOrderUnsorted(obj) == DictKeys(obj)

\* The order in which the dict branch visits the keys: sorted(obj.keys()).
PruneKeyOrder(obj) == SortedKeys(DictKeys(obj))

\* Mutant of PruneSkips: only empty dicts are skipped.
PruneSkipsDictOnly(v) == IsDict(v) /\ Len(v.entries) = 0

\* Mutant of PruneSkips: every falsy value is skipped (if not v: continue).
PruneSkipsFalsy(v) ==
    \/ v = PyNone
    \/ IsBool(v) /\ ~v.b
    \/ IsDict(v) /\ Len(v.entries) = 0
    \/ IsList(v) /\ Len(v.items) = 0

\* The two tests that make the dict branch skip an entry: the pruned value
\* is an empty dict or an empty list.
PruneSkips(v) ==
    \/ IsDict(v) /\ Len(v.entries) = 0
    \/ IsList(v) /\ Len(v.items) = 0

\* Mutant of PruneEntries: the emptiness test is applied to the original
\* child instead of the pruned one.
RECURSIVE PruneEntriesTopDown(_, _)
PruneEntriesTopDown(obj, ks) ==
    IF Len(ks) = 0 THEN <<>>
    ELSE LET k == Head(ks)
             v == prune_empty_recursive(DictItem(obj, k))
         IN  (IF PruneSkips(DictItem(obj, k)) THEN <<>> ELSE << <<k, v>> >>)
                \o PruneEntriesTopDown(obj, Tail(ks))

\* The loop of the dict branch over the keys ks still to visit; the result
\* is the entries added to the OrderedDict, in the order they are added.
RECURSIVE PruneEntries(_, _)
PruneEntries(obj, ks) ==
    IF Len(ks) = 0 THEN <<>>
    ELSE LET k == Head(ks)
             v == prune_empty_recursive(DictItem(obj, k))
         IN  (IF PruneSkips(v) THEN <<>> ELSE << <<k, v>> >>)
                \o PruneEntries(obj, Tail(ks))

\* Mutant of PruneItems: a list is returned as it is, its items unprocessed.
PruneItemsUnprocessed(xs) == xs

\* Mutant of PruneItems: the items that are empty after pruning are dropped.
PruneItemsDropEmpty(xs) ==
    SelectSeq([i \in 1..Len(xs) |-> prune_empty_recursive(xs[i])],
              LAMBDA v : ~PruneSkips(v))

\* The list branch: every item is processed, none is dropped.
PruneItems(xs) == [i \in 1..Len(xs) |-> prune_empty_recursive(xs[i])]

prune_empty_recursive(obj) ==
    IF IsDict(obj) THEN PyDict(PruneEntries(obj, PruneKeyOrder(obj)))
    ELSE IF IsList(obj) THEN PyList(PruneItems(obj.items))
    ELSE obj

-----------------------------------------------------------------------------
(* json.dumps(obj, separators=(item_sep, key_sep), ensure_ascii=False) *)

\* The replacement json's py_encode_basestring makes for one character.
EscapeChar(c) ==
    CASE c = "\"" -> "\\\""
      [] c = "\\" -> "\\\\"
      [] c = "\n" -> "\\n"
      [] c = "\r" -> "\\r"
      [] c = "\t" -> "\\t"
      [] OTHER    -> c

RECURSIVE EscapeChars(_)
EscapeChars(s) ==
    IF Len(s) = 0 THEN "" ELSE EscapeChar(Head(s)) \o EscapeChars(Tail(s))

\* A JSON string literal: the escaped characters between double quotes.
JsonString(s) == "\"" \o EscapeChars(s) \o "\""

RECURSIVE json_dumps(_, _, _)
json_dumps(obj, item_sep, key_sep) ==
    CASE obj.t = "none" -> "null"
      [] obj.t = "bool" -> (IF obj.b THEN "true" ELSE "false")
      [] obj.t = "int"  -> IntToStr(obj.n)
      [] obj.t = "str"  -> JsonString(obj.s)
      [] obj.t = "list" ->
            "[" \o Join([i \in 1..Len(obj.items) |->
                            json_dumps(obj.items[i], item_sep, key_sep)],
                        item_sep) \o "]"
      [] obj.t = "dict" ->
            "{" \o Join([i \in 1..Len(obj.entries) |->
                            JsonString(obj.entries[i][1]) \o key_sep \o
                            json_dumps(obj.entries[i][2], item_sep, key_sep)],
                        item_sep) \o "}"

HexDigits == "0123456789abcdef"

\* '{0:04x}'.format(n)
Hex4(n) ==
    CharAt(HexDigits, ((n \div 4096) % 16) + 1) \o
    CharAt(HexDigits, ((n \div 256) % 16) + 1) \o
    CharAt(HexDigits, ((n \div 16) % 16) + 1) \o
    CharAt(HexDigits, (n % 16) + 1)

\* The replacement json's py_encode_basestring_ascii makes for one
\* character: a character outside U+0020 .. U+007E is written \uXXXX.
EscapeCharAscii(c) ==
    IF CharCode[c] > 126 THEN "\\u" \o Hex4(CharCode[c]) ELSE EscapeChar(c)

RECURSIVE EscapeCharsAscii(_)
EscapeCharsAscii(s) ==
    IF Len(s) = 0 THEN "" ELSE EscapeCharAscii(Head(s)) \o EscapeCharsAscii(Tail(s))

JsonStringAscii(s) == "\"" \o EscapeCharsAscii(s) \o "\""

\* json.dumps(obj, separators=(item_sep, key_sep), ensure_ascii=True)
RECURSIVE json_dumps_ascii(_, _, _)
json_dumps_ascii(obj, item_sep, key_sep) ==
    CASE obj.t = "none" -> "null"
      [] obj.t = "bool" -> (IF obj.b THEN "true" ELSE "false")
      [] obj.t = "int"  -> IntToStr(obj.n)
      [] obj.t = "str"  -> JsonStringAscii(obj.s)
      [] obj.t = "list" ->
            "[" \o Join([i \in 1..Len(obj.items) |->
                            json_dumps_ascii(obj.items[i], item_sep, key_sep)],
                        item_sep) \o "]"
      [] obj.t = "dict" ->
            "{" \o Join([i \in 1..Len(obj.entries) |->
                            JsonStringAscii(obj.entries[i][1]) \o key_sep \o
                            json_dumps_ascii(obj.entries[i][2], item_sep, key_sep)],
                        item_sep) \o "}"

\* str(value) for an int or a bool (str(True) is "True").
PyStrOf(v) == IF IsBool(v) THEN (IF v.b THEN "True" ELSE "False") ELSE IntToStr(v.n)

-----------------------------------------------------------------------------
(* value_to_json_chromium, analyze-json.py:61-91 *)

\* Mutant of value_to_json_chromium: the numeric rule is tried before the
\* boolean rule.
ValueToJsonNumericFirst(v) ==
    IF v = PyNone THEN ""
    ELSE IF IsInt(v) THEN PyStrOf(v)
    ELSE IF IsBool(v) THEN (IF v.b THEN "true" ELSE "false")
    ELSE IF IsList(v) THEN
        IF Len(v.items) = 0 THEN "[]"
        ELSE json_dumps(prune_empty_recursive(v), ",", ":")
    ELSE IF IsDict(v) THEN json_dumps(prune_empty_recursive(v), ",", ":")
    ELSE json_dumps(v, ",", ":")

\* Mutant of value_to_json_chromium: an empty list or dict is treated like
\* None and rendered as "".
ValueToJsonFalsyFirst(v) ==
    IF v = PyNone \/ PruneSkips(v) THEN ""
    ELSE IF IsBool(v) THEN (IF v.b THEN "true" ELSE "false")
    ELSE IF IsList(v) THEN json_dumps(prune_empty_recursive(v), ",", ":")
    ELSE IF IsDict(v) THEN json_dumps(prune_empty_recursive(v), ",", ":")
    ELSE IF IsStr(v) THEN json_dumps(v, ",", ":")
    ELSE PyStrOf(v)

value_to_json_chromium(v) ==
    IF v = PyNone THEN ""
    ELSE IF IsBool(v) THEN (IF v.b THEN "true" ELSE "false")
    ELSE IF IsList(v) THEN
        IF Len(v.items) = 0 THEN "[]"
        ELSE json_dumps(prune_empty_recursive(v), ",", ":")
    ELSE IF IsDict(v) THEN json_dumps(prune_empty_recursive(v), ",", ":")
    ELSE IF IsStr(v) THEN json_dumps(v, ",", ":")
    ELSE IF IsInt(v) THEN PyStrOf(v)
    ELSE json_dumps(prune_empty_recursive(v), ",", ":")

-----------------------------------------------------------------------------
(* hmac_sha256, analyze-json.py:29-33 *)

\* hashlib.sha256().digest_size, in bytes.
SHA256_DIGEST_SIZE == 32

\* hmac.new(key_bytes, message_bytes, hashlib.sha256).hexdigest(): two
\* lowercase hexadecimal characters per digest byte.
HmacHexDigest(key_bytes, message_bytes) ==
    [key |-> key_bytes, msg |-> message_bytes,
     hexlen |-> 2 * SHA256_DIGEST_SIZE, hexcase |-> "lower"]

\* str.upper() of a hexadecimal string.
HexUpper(d) == [d EXCEPT !.hexcase = "upper"]

\* Mutant of hmac_sha256: an empty key is refused.
HmacRefusesEmptyKey(key, msg) ==
    IF key = "" THEN [t |-> "raised", exc |-> "ValueError"]
    ELSE HexUpper(HmacHexDigest(Utf8Encode(key), Utf8Encode(msg)))

hmac_sha256(key, msg) == HexUpper(HmacHexDigest(Utf8Encode(key), Utf8Encode(msg)))

-----------------------------------------------------------------------------
(* calculate_mac, analyze-json.py:108-112 *)

\* Mutant of MacMessage: the path is written before the device id.
MacMessagePathFirst(device, p, v) == p \o device \o value_to_json_chromium(v)

\* Mutant of MacMessage: the three parts are set apart by a delimiter.
MacMessageDelimited(device, p, v) ==
    device \o "|" \o p \o "|" \o value_to_json_chromium(v)

\* The local message of calculate_mac.
MacMessage(device, p, v) == device \o p \o value_to_json_chromium(v)

calculate_mac(seed_, device, p, v) == hmac_sha256(seed_, MacMessage(device, p, v))

-----------------------------------------------------------------------------
(* get_value_at_path, analyze-json.py:94-105 *)

\* str.split(sep) for a one-character sep: the pieces between the
\* separators; the empty string splits into one empty piece.
RECURSIVE SplitFrom(_, _, _)
SplitFrom(s, sep, piece) ==
    IF Len(s) = 0 THEN <<piece>>
    ELSE IF Head(s) = sep THEN <<piece>> \o SplitFrom(Tail(s), sep, "")
    ELSE SplitFrom(Tail(s), sep, piece \o Head(s))

Split(s, sep) == SplitFrom(s, sep, "")

\* dict.get(k): the value under k, None when the dict has no key k.
DictGet(v, k) == IF HasKey(v, k) THEN DictItem(v, k) ELSE PyNone

\* An exception that leaves the function instead of a returned value.
PyRaised(exc) == [t |-> "raised", exc |-> exc]

\* Mutant of WalkParts: without the isinstance test, .get is looked up on
\* a list, a string or a number, which have no such attribute.
RECURSIVE WalkPartsUnguarded(_, _)
WalkPartsUnguarded(current, parts) ==
    IF Len(parts) = 0 THEN current
    ELSE IF current = PyNone THEN PyNone
    ELSE IF IsDict(current)
         THEN WalkPartsUnguarded(DictGet(current, Head(parts)), Tail(parts))
    ELSE PyRaised("AttributeError")

\* The for loop over the parts still to apply, from node current.
RECURSIVE WalkParts(_, _)
WalkParts(current, parts) ==
    IF Len(parts) = 0 THEN current
    ELSE IF current = PyNone THEN PyNone
    ELSE IF IsDict(current) THEN WalkParts(DictGet(current, Head(parts)), Tail(parts))
    ELSE PyNone

get_value_at_path(obj, p) == WalkParts(obj, Split(p, "."))

-----------------------------------------------------------------------------
(* The inputs drawn by the specifications *)

\* Dict keys of the drawn values.
Keys == {"x", "y"}

\* The values of one node: the scalars and the two empty containers.
Leaves ==
    {PyNone, PyBool(TRUE), PyBool(FALSE), PyInt(1), PyStr("s"),
     PyList(<<>>), PyDict(<<>>)}

\* The sequences of n pairwise different keys.
KeySeqs(n) ==
    {ks \in [1..n -> Keys] : \A i, j \in 1..n : i # j => ks[i] # ks[j]}

\* ValuesOfSize(n): the value trees of exactly n nodes;
\* SeqsOfSize(m): the non-empty sequences of value trees of m nodes in all.
RECURSIVE ValuesOfSize(_), SeqsOfSize(_)
ValuesOfSize(n) ==
    IF n = 1 THEN Leaves
    ELSE {PyList(xs) : xs \in SeqsOfSize(n - 1)} \cup
         UNION {{PyDict([i \in 1..Len(xs) |-> <<ks[i], xs[i]>>]) :
                    ks \in KeySeqs(Len(xs))} : xs \in SeqsOfSize(n - 1)}
SeqsOfSize(m) ==
    {<<v>> : v \in ValuesOfSize(m)} \cup
    UNION {{<<v>> \o xs : v \in ValuesOfSize(k), xs \in SeqsOfSize(m - k)} :
              k \in 1..(m - 1)}

\* Every value tree of at most m nodes.
ValuesUpTo(m) == UNION {ValuesOfSize(n) : n \in 1..m}

Seeds     == {"S", ""}
DeviceIds == {"D1"}
Paths     == {"a.b"}

-----------------------------------------------------------------------------
(* SpecCalc: one call calculate_mac(seed, device_id, path, value) on drawn *)
(* arguments.                                                              *)

InitCalc ==
    /\ pc = "calc"
    /\ seed \in Seeds
    /\ device_id \in DeviceIds
    /\ path \in Paths
    /\ value \in ValuesUpTo(MaxNodes)
    /\ value_json = ""
    /\ message = ""
    /\ calculated_mac = NoMac
    /\ secure_prefs = PyDict(<<>>)
    /\ file_macs = <<>>
    /\ filter_path = ""
    /\ idx = 0
    /\ passed = 0
    /\ failed = 0
    /\ failed_items = <<>>
    /\ output = <<>>
    /\ SearchIdle

CalculateMac ==
    /\ pc = "calc"
    /\ value_json' = value_to_json_chromium(value)
    /\ message' = MacMessage(device_id, path, value)
    /\ calculated_mac' = calculate_mac(seed, device_id, path, value)
    /\ pc' = "done"
    /\ UNCHANGED <<search_vars, seed, device_id, path, value, batch_vars>>

NextCalc == CalculateMac

SpecCalc == InitCalc /\ [][NextCalc]_vars

-----------------------------------------------------------------------------
(* SpecLookup: one call get_value_at_path(obj, path) on drawn arguments;   *)
(* obj is held in secure_prefs and the result in value.                    *)

LookupPaths == {"", "x", "x.y", "y.x", "x.y.x"}

InitLookup ==
    /\ pc = "lookup"
    /\ secure_prefs \in ValuesUpTo(MaxNodes)
    /\ path \in LookupPaths
    /\ value = PyNone
    /\ seed = ""
    /\ device_id = ""
    /\ value_json = ""
    /\ message = ""
    /\ calculated_mac = NoMac
    /\ file_macs = <<>>
    /\ filter_path = ""
    /\ idx = 0
    /\ passed = 0
    /\ failed = 0
    /\ failed_items = <<>>
    /\ output = <<>>
    /\ SearchIdle

Lookup ==
    /\ pc = "lookup"
    /\ value' = get_value_at_path(secure_prefs, path)
    /\ pc' = "found"
    /\ UNCHANGED <<seed, device_id, path, value_json, message, calculated_mac,
                   batch_vars, search_vars>>

NextLookup == Lookup

SpecLookup == InitLookup /\ [][NextLookup]_vars

-----------------------------------------------------------------------------
(* Spec: main of analyze-json.py on a drawn snapshot and a drawn capture   *)

\* sub in s
Contains(s, sub) ==
    \E i \in 1..(Len(s) - Len(sub) + 1) : SubSeq(s, i, i + Len(sub) - 1) = sub

\* The snapshots: under "a", key "b" holds a dict or a list and key "n" an
\* explicit null; "a" has no key "c", and the snapshot no key "".
Snapshots ==
    {PyDict(<< <<"a", PyDict(<< <<"b", b>>, <<"n", PyNone>> >>)>> >>) :
        b \in {PyDict(<< <<"x", PyInt(1)>>, <<"y", PyList(<<>>)>> >>),
               PyList(<<PyDict(<<>>)>>)}}

BatchPaths == {"_description", "a.b", "a.n", "a.c", ""}

Filters == {"", "b"}

\* A value the browser may have held when it computed a MAC that no longer
\* fits the snapshot.
StaleValue == PyStr("stale")

\* The MAC the capture holds for path p: the one of the snapshot's value,
\* or the one of the stale value.
CapturedMac(kind, sd, dev, prefs, p) ==
    IF kind = "genuine" THEN calculate_mac(sd, dev, p, get_value_at_path(prefs, p))
    ELSE calculate_mac(sd, dev, p, StaleValue)

MacKinds == {"genuine", "stale"}

\* The letter case in which a capture writes its hexadecimal MACs.
HexCases == {"upper", "lower"}

\* A hexadecimal string written in the given letter case.
HexInCase(d, hexcase) == [d EXCEPT !.hexcase = hexcase]

\* The captures: up to MaxRecords items <<path, expected_mac>> with pairwise
\* different paths (file_macs is a JSON object), all MACs of a capture in
\* the same letter case.
Captures(sd, dev, prefs) ==
    UNION {{[i \in 1..n |->
                <<c[i][1],
                  HexInCase(CapturedMac(c[i][2], sd, dev, prefs, c[i][1]), hc)>>] :
              c \in {d \in [1..n -> BatchPaths \X MacKinds] :
                        \A i, j \in 1..n : i # j => d[i][1] # d[j][1]},
              hc \in HexCases} :
           n \in 0..MaxRecords}

Init ==
    /\ pc = "loop"
    /\ seed \in Seeds
    /\ device_id \in DeviceIds
    /\ secure_prefs \in Snapshots
    /\ file_macs \in Captures(seed, device_id, secure_prefs)
    /\ filter_path \in Filters
    /\ path = ""
    /\ value = PyNone
    /\ value_json = ""
    /\ message = ""
    /\ calculated_mac = NoMac
    /\ idx = 0
    /\ passed = 0
    /\ failed = 0
    /\ failed_items = <<>>
    /\ output = <<>>
    /\ SearchIdle

\* The item the for loop takes next.
NextItem == file_macs[idx + 1]

\* Line 139-140: the _description entry is skipped.
SkipDescription ==
    /\ pc = "loop"
    /\ idx < Len(file_macs)
    /\ NextItem[1] = "_description"
    /\ idx' = idx + 1
    /\ path' = NextItem[1]
    /\ UNCHANGED <<search_vars, pc, seed, device_id, value, value_json, message, calculated_mac,
                   secure_prefs, file_macs, filter_path, passed, failed,
                   failed_items, output>>

\* Line 141-142: a path that does not contain the filter is skipped.
SkipFiltered ==
    /\ pc = "loop"
    /\ idx < Len(file_macs)
    /\ NextItem[1] # "_description"
    /\ filter_path # "" /\ ~Contains(NextItem[1], filter_path)
    /\ idx' = idx + 1
    /\ path' = NextItem[1]
    /\ UNCHANGED <<search_vars, pc, seed, device_id, value, value_json, message, calculated_mac,
                   secure_prefs, file_macs, filter_path, passed, failed,
                   failed_items, output>>

\* The test of line 147.
MacMatches(calculated, expected) == calculated = expected

\* Lines 144-149: the record is evaluated and its MAC is the expected one.
EvaluatePass ==
    /\ pc = "loop"
    /\ idx < Len(file_macs)
    /\ NextItem[1] # "_description"
    /\ ~(filter_path # "" /\ ~Contains(NextItem[1], filter_path))
    /\ path' = NextItem[1]
    /\ value' = get_value_at_path(secure_prefs, path')
    /\ value_json' = value_to_json_chromium(value')
    /\ message' = MacMessage(device_id, path', value')
    /\ calculated_mac' = calculate_mac(seed, device_id, path', value')
    /\ MacMatches(calculated_mac', NextItem[2])
    /\ output' = Append(output, [line |-> "PASS", path |-> path'])
    /\ passed' = passed + 1
    /\ idx' = idx + 1
    /\ UNCHANGED <<search_vars, pc, seed, device_id, secure_prefs, file_macs, filter_path,
                   failed, failed_items>>

\* Mutant of EvaluateFail: the loop is left at the first mismatch.
EvaluateFailStops ==
    /\ pc = "loop"
    /\ idx < Len(file_macs)
    /\ NextItem[1] # "_description"
    /\ ~(filter_path # "" /\ ~Contains(NextItem[1], filter_path))
    /\ path' = NextItem[1]
    /\ value' = get_value_at_path(secure_prefs, path')
    /\ value_json' = value_to_json_chromium(value')
    /\ message' = MacMessage(device_id, path', value')
    /\ calculated_mac' = calculate_mac(seed, device_id, path', value')
    /\ ~MacMatches(calculated_mac', NextItem[2])
    /\ output' = Append(output, [line |-> "FAIL", path |-> path'])
    /\ failed' = failed + 1
    /\ failed_items' = Append(failed_items,
            [path |-> path', expected |-> NextItem[2],
             calculated |-> calculated_mac', value |-> value'])
    /\ idx' = Len(file_macs)
    /\ UNCHANGED <<search_vars, pc, seed, device_id, secure_prefs, file_macs,
                   filter_path, passed>>

\* Lines 144-158: the record is evaluated and its MAC is not the expected one.
EvaluateFail ==
    /\ pc = "loop"
    /\ idx < Len(file_macs)
    /\ NextItem[1] # "_description"
    /\ ~(filter_path # "" /\ ~Contains(NextItem[1], filter_path))
    /\ path' = NextItem[1]
    /\ value' = get_value_at_path(secure_prefs, path')
    /\ value_json' = value_to_json_chromium(value')
    /\ message' = MacMessage(device_id, path', value')
    /\ calculated_mac' = calculate_mac(seed, device_id, path', value')
    /\ ~MacMatches(calculated_mac', NextItem[2])
    /\ output' = Append(output, [line |-> "FAIL", path |-> path'])
    /\ failed' = failed + 1
    /\ failed_items' = Append(failed_items,
            [path |-> path', expected |-> NextItem[2],
             calculated |-> calculated_mac', value |-> value'])
    /\ idx' = idx + 1
    /\ UNCHANGED <<search_vars, pc, seed, device_id, secure_prefs, file_macs, filter_path, passed>>

\* failed_items[:3] of line 171 and the excerpt limits of lines 187-189.
DETAIL_LIMIT   == 3
EXCERPT_LIMIT  == 400
EXCERPT_LENGTH == 200

\* Lines 172-194: what is printed for one failed item.
DetailOf(item) ==
    LET vj == value_to_json_chromium(item.value)
    IN  [line |-> "DETAIL", path |-> item.path, expected |-> item.expected,
         calculated |-> item.calculated, device |-> device_id,
         json_length |-> Len(vj),
         excerpt |-> IF Len(vj) > EXCERPT_LIMIT
                     THEN <<SubSeq(vj, 1, EXCERPT_LENGTH),
                            SubSeq(vj, Len(vj) - EXCERPT_LENGTH + 1, Len(vj))>>
                     ELSE <<vj>>]

\* Mutant of Prefix: the slice is the whole sequence.
PrefixWhole(seq, n) == seq

\* seq[:n]
Prefix(seq, n) == SubSeq(seq, 1, IF Len(seq) < n THEN Len(seq) ELSE n)

\* Lines 160-194: the loop is over; the counts and the details are printed.
Report ==
    /\ pc = "loop"
    /\ idx = Len(file_macs)
    /\ output' = output
            \o <<[line |-> "RESULTS", passed |-> passed, failed |-> failed]>>
            \o (LET shown == Prefix(failed_items, DETAIL_LIMIT)
                IN  [i \in 1..Len(shown) |-> DetailOf(shown[i])])
    /\ pc' = "done"
    /\ UNCHANGED <<search_vars, calc_vars, secure_prefs, file_macs, filter_path, idx, passed,
                   failed, failed_items>>

Next == SkipDescription \/ SkipFiltered \/ EvaluatePass \/ EvaluateFail \/ Report

Spec == Init /\ [][Next]_vars

-----------------------------------------------------------------------------
(* SpecTransplant: main of analyze-json.py on a capture in which the MAC   *)
(* of the record at a.b is also held for a second path.                    *)

\* The values the snapshot holds at a.b.
TransplantValues ==
    {PyInt(1), PyStr("s"), PyBool(TRUE), PyNone, PyList(<<PyInt(1)>>),
     PyDict(<< <<"x", PyInt(1)>> >>)}

\* The second paths: a.b extended by the characters of the canonical string
\* of one of the values, and a.c; the snapshot has no value at any of them.
TransplantPaths ==
    ({"a.b" \o value_to_json_chromium(v) : v \in TransplantValues} \cup {"a.c"})
        \ {"a.b"}

InitTransplant ==
    /\ pc = "loop"
    /\ seed \in Seeds
    /\ device_id \in DeviceIds
    /\ secure_prefs \in
            {PyDict(<< <<"a", PyDict(<< <<"b", v>> >>)>> >>) : v \in TransplantValues}
    /\ \E p \in TransplantPaths, m \in HexCases, d \in BOOLEAN :
          LET held == HexInCase(CapturedMac("genuine", seed, device_id,
                                            secure_prefs, "a.b"), m)
          IN  file_macs = (IF d THEN << <<"_description", held>> >> ELSE <<>>)
                            \o << <<"a.b", held>>, <<p, held>> >>
    /\ filter_path \in Filters
    /\ path = ""
    /\ value = PyNone
    /\ value_json = ""
    /\ message = ""
    /\ calculated_mac = NoMac
    /\ idx = 0
    /\ passed = 0
    /\ failed = 0
    /\ failed_items = <<>>
    /\ output = <<>>
    /\ SearchIdle

SpecTransplant == InitTransplant /\ [][Next]_vars

-----------------------------------------------------------------------------
(* SpecSearch: the hypothesis search of find-mac-keys.py on a drawn value  *)
(* and a drawn expected MAC.  value is the extension's dict, path the      *)
(* global PATH, seed FILE_SEED and device_id DEVICE_ID; idx counts the     *)
(* iterations made of the running loop.  candidates records, in order,     *)
(* every MAC computation of the run with the value and the JSON string it  *)
(* was made on.                                                            *)

\* Largest number of top-level keys of the drawn extension dict.
MaxKeys == 3

\* find-mac-keys.py:29-30
EXT_ID == "mjdcklhepheaaemphcopihnmjlmjpcnh"
PATH == "extensions.settings." \o EXT_ID

\* find-mac-keys.py:47-53
RECURSIVE sort_dict_recursive(_)
sort_dict_recursive(obj) ==
    IF IsDict(obj) THEN
        LET ks == SortedKeys(DictKeys(obj))
        IN  PyDict([i \in 1..Len(ks) |->
                      <<ks[i], sort_dict_recursive(DictItem(obj, ks[i]))>>])
    ELSE IF IsList(obj) THEN
        PyList([i \in 1..Len(obj.items) |-> sort_dict_recursive(obj.items[i])])
    ELSE obj

\* find-mac-keys.py:57-58
json_str(val) == json_dumps(sort_dict_recursive(val), ",", ":")

\* find-mac-keys.py:56-59, over the globals FILE_SEED, DEVICE_ID and PATH.
calc_mac(val) == hmac_sha256(seed, device_id \o path \o json_str(val))

\* Mutant of DictWithout: the test of the comprehension is inverted.
DictWithoutInverted(d, ks) == PyDict(SelectSeq(d.entries, LAMBDA e : e[1] \in ks))

\* {k: v for k, v in d.items() if k not in ks}
DictWithout(d, ks) == PyDict(SelectSeq(d.entries, LAMBDA e : e[1] \notin ks))

\* {k: v for k, v in d.items() if k in ks}
DictOnly(d, ks) == PyDict(SelectSeq(d.entries, LAMBDA e : e[1] \in ks))

\* d[k] = v on a copy of d: an existing key keeps its position.
DictSet(d, k, v) ==
    IF HasKey(d, k)
    THEN PyDict([i \in 1..Len(d.entries) |->
                    IF d.entries[i][1] = k THEN <<k, v>> ELSE d.entries[i]])
    ELSE PyDict(Append(d.entries, <<k, v>>))

\* s.replace(old, new) for a one-character old.
RECURSIVE Replace(_, _, _)
Replace(s, old, new) ==
    IF Len(s) = 0 THEN ""
    ELSE (IF Head(s) = old THEN new ELSE Head(s)) \o Replace(Tail(s), old, new)

Range(seq) == {seq[i] : i \in 1..Len(seq)}

\* find-mac-keys.py:84-92
runtime_keys ==
    <<"active_permissions", "commands", "events", "last_update_time",
      "disable_reasons", "state", "first_install_time">>

\* Mutant of ExcludeLists: the list of all runtime keys is not tried.
ExcludeListsShort ==
    <<  <<"active_permissions">>, <<"commands">>, <<"events">>,
        <<"disable_reasons">>,
        <<"active_permissions", "commands", "events">>  >>

\* find-mac-keys.py:94-101
ExcludeLists ==
    <<  <<"active_permissions">>, <<"commands">>, <<"events">>,
        <<"disable_reasons">>,
        <<"active_permissions", "commands", "events">>,
        runtime_keys  >>

\* find-mac-keys.py:115-122
core_keys ==
    <<"path", "location", "from_webstore", "creation_flags",
      "was_installed_by_default", "was_installed_by_oem">>

\* find-mac-keys.py:152-158: the names of the formats, in the order of the
\* list.
format_names ==
    <<"Standard", "ASCII", "Spaced ': '", "Spaced ', '", "Both spaced">>

\* find-mac-keys.py:153-157: the JSON string the named format gives.
format_json(name, sorted_val) ==
    CASE name = "Standard"    -> json_dumps(sorted_val, ",", ":")
      [] name = "ASCII"       -> json_dumps_ascii(sorted_val, ",", ":")
      [] name = "Spaced ': '" -> json_dumps(sorted_val, ",", ": ")
      [] name = "Spaced ', '" -> json_dumps(sorted_val, ", ", ":")
      [] name = "Both spaced" -> json_dumps(sorted_val, ", ", ": ")

\* find-mac-keys.py:149-158: the list of (name, json_str) pairs made from
\* sort_dict_recursive(value).
formats(v) ==
    [i \in 1..Len(format_names) |->
        <<format_names[i], format_json(format_names[i], sort_dict_recursive(v))>>]

\* find-mac-keys.py:174-179
variations(original_path) ==
    <<  <<"Original",         original_path>>,
        <<"Forward slashes",  Replace(original_path, "\\", "/")>>,
        <<"Double backslash", Replace(original_path, "\\", "\\\\")>>  >>

\* The entries an extension dict is drawn from: two core keys, two runtime
\* keys holding empty containers and a further key holding a dict whose keys
\* are not in ascending order and whose string is outside ASCII.
EntryPool ==
    {<<"path", PyStr("C:\\e")>>,
     <<"location", PyInt(1)>>,
     <<"commands", PyDict(<<>>)>>,
     <<"events", PyList(<<>>)>>,
     <<"manifest", PyDict(<< <<"name", PyStr("é")>>, <<"key", PyInt(1)>> >>)>>}

\* The dicts of n entries of the pool, in every insertion order.
RECURSIVE EntrySeqs(_)
EntrySeqs(n) ==
    IF n = 0 THEN {<<>>}
    ELSE {Append(es, e) : es \in EntrySeqs(n - 1), e \in EntryPool}

ExtensionValues ==
    {PyDict(es) : es \in {es \in UNION {EntrySeqs(n) : n \in 0..MaxKeys} :
                            \A i, j \in 1..Len(es) : es[i][1] = es[j][1] => i = j}}

\* A MAC that no hypothesis of the search produces.
ForeignMac == hmac_sha256("S", "stale")

\* Every MAC a hypothesis of the search can give for v under FILE_SEED s and
\* DEVICE_ID d.
HypothesisMacs(s, d, v) ==
    LET m(val) == hmac_sha256(s, d \o PATH \o
                              json_dumps(sort_dict_recursive(val), ",", ":"))
        ks == Range(DictKeys(v))
    IN  {m(DictWithout(v, {k})) : k \in ks}
        \cup {m(DictWithout(v, Range(ExcludeLists[i]))) : i \in 1..Len(ExcludeLists)}
        \cup {m(DictOnly(v, Range(core_keys)))}
        \cup {m(DictOnly(v, Range(core_keys) \cup {k})) : k \in ks}
        \cup {hmac_sha256(s, d \o PATH \o formats(v)[i][2]) : i \in 1..Len(format_names)}
        \cup (IF HasKey(v, "path")
              THEN {m(DictSet(v, "path", PyStr(variations(DictItem(v, "path").s)[i][2]))) :
                        i \in 1..3}
              ELSE {})

\* find-mac-keys.py:18-33: the globals after the load of the test data; the
\* expected MAC is the MAC of one of the hypotheses or of none of them.
InitSearch ==
    /\ pc = "test1"
    /\ seed = "S"
    /\ device_id \in DeviceIds
    /\ path = PATH
    /\ value \in ExtensionValues
    /\ expected_mac \in HypothesisMacs(seed, device_id, value) \cup {ForeignMac}
    /\ test_val = PyNone
    /\ mac = NoMac
    /\ candidates = <<>>
    /\ heap = <<>>
    /\ ref = 0
    /\ idx = 0
    /\ output = <<>>
    /\ value_json = ""
    /\ message = ""
    /\ calculated_mac = NoMac
    /\ secure_prefs = PyNone
    /\ file_macs = <<>>
    /\ filter_path = ""
    /\ passed = 0
    /\ failed = 0
    /\ failed_items = <<>>

\* The variables no statement of the search assigns.
search_frame ==
    <<seed, device_id, path, value, expected_mac, value_json, message,
      calculated_mac, secure_prefs, file_macs, filter_path, passed, failed,
      failed_items, heap, ref>>

\* One MAC computation of the run: the test and the hypothesis it belongs
\* to, the value and the JSON string it was made on and the MAC it gave.
Candidate(test, name, val, json, m) ==
    [test |-> test, name |-> name, val |-> val, json |-> json, mac |-> m]

\* A printed result of a hypothesis.
ResultLine(match, test, name) ==
    [line |-> IF match THEN "MATCH" ELSE "NO MATCH", test |-> test, name |-> name]

\* Mutant of Test1Keys: the loop takes the keys as value.keys() gives them.
Test1KeysUnsorted == DictKeys(value)

\* Line 67: the keys the loop of TEST 1 iterates, in its order.
Test1Keys == SortedKeys(DictKeys(value))

\* Lines 67-69, 70 false: removing the next key, in ascending order, does
\* not give the expected MAC.
Test1NoMatch ==
    /\ pc = "test1"
    /\ idx < Len(Test1Keys)
    /\ LET key == Test1Keys[idx + 1]
       IN  /\ test_val' = DictWithout(value, {key})
           /\ mac' = calc_mac(test_val')
           /\ mac' # expected_mac
           /\ candidates' = Append(candidates,
                  Candidate("test1", key, test_val', json_str(test_val'), mac'))
    /\ idx' = idx + 1
    /\ UNCHANGED <<search_frame, pc, output>>

\* Mutant of Test1Match: the loop goes on after the match is printed.
Test1MatchContinues ==
    /\ pc = "test1"
    /\ idx < Len(Test1Keys)
    /\ LET key == Test1Keys[idx + 1]
       IN  /\ test_val' = DictWithout(value, {key})
           /\ mac' = calc_mac(test_val')
           /\ mac' = expected_mac
           /\ candidates' = Append(candidates,
                  Candidate("test1", key, test_val', json_str(test_val'), mac'))
           /\ output' = Append(output, ResultLine(TRUE, "test1", key))
    /\ idx' = idx + 1
    /\ UNCHANGED <<search_frame, pc>>

\* Lines 67-72: removing the next key gives the expected MAC; the match is
\* printed and the loop is left.
Test1Match ==
    /\ pc = "test1"
    /\ idx < Len(Test1Keys)
    /\ LET key == Test1Keys[idx + 1]
       IN  /\ test_val' = DictWithout(value, {key})
           /\ mac' = calc_mac(test_val')
           /\ mac' = expected_mac
           /\ candidates' = Append(candidates,
                  Candidate("test1", key, test_val', json_str(test_val'), mac'))
           /\ output' = Append(output, ResultLine(TRUE, "test1", key))
    /\ pc' = "test2"
    /\ idx' = 0
    /\ UNCHANGED search_frame

\* Lines 73-74: the loop ran out of keys without a break.
Test1Exhausted ==
    /\ pc = "test1"
    /\ idx = Len(Test1Keys)
    /\ output' = Append(output, ResultLine(FALSE, "test1", ""))
    /\ pc' = "test2"
    /\ idx' = 0
    /\ UNCHANGED <<search_frame, test_val, mac, candidates>>

\* Mutant of Test2Step: the comparison is made on the MAC of the previous
\* computation.
Test2StepStale ==
    /\ pc = "test2"
    /\ idx < Len(ExcludeLists)
    /\ LET exclude_list == ExcludeLists[idx + 1]
       IN  /\ test_val' = DictWithout(value, Range(exclude_list))
           /\ mac' = calc_mac(test_val')
           /\ candidates' = Append(candidates,
                  Candidate("test2", exclude_list, test_val', json_str(test_val'), mac'))
           /\ output' = Append(output,
                  ResultLine(mac = expected_mac, "test2", exclude_list))
    /\ idx' = idx + 1
    /\ UNCHANGED <<search_frame, pc>>

\* Lines 94-105: the next exclusion list is tried and its result printed.
Test2Step ==
    /\ pc = "test2"
    /\ idx < Len(ExcludeLists)
    /\ LET exclude_list == ExcludeLists[idx + 1]
       IN  /\ test_val' = DictWithout(value, Range(exclude_list))
           /\ mac' = calc_mac(test_val')
           /\ candidates' = Append(candidates,
                  Candidate("test2", exclude_list, test_val', json_str(test_val'), mac'))
           /\ output' = Append(output,
                  ResultLine(mac' = expected_mac, "test2", exclude_list))
    /\ idx' = idx + 1
    /\ UNCHANGED <<search_frame, pc>>

\* Mutant of Test2Done: the loop over the exclusion lists starts again.
Test2DoneRestarts ==
    /\ pc = "test2"
    /\ idx = Len(ExcludeLists)
    /\ idx' = 0
    /\ UNCHANGED <<search_frame, pc, test_val, mac, candidates, output>>

\* Line 94: the exclusion lists are exhausted.
Test2Done ==
    /\ pc = "test2"
    /\ idx = Len(ExcludeLists)
    /\ pc' = "test3"
    /\ idx' = 0
    /\ UNCHANGED <<search_frame, test_val, mac, candidates, output>>

\* Lines 124-127: the core keys alone.
Test3Core ==
    /\ pc = "test3"
    /\ test_val' = DictOnly(value, Range(core_keys))
    /\ mac' = calc_mac(test_val')
    /\ candidates' = Append(candidates,
           Candidate("test3", "Core keys only", test_val', json_str(test_val'), mac'))
    /\ output' = Append(output,
           ResultLine(mac' = expected_mac, "test3", "Core keys only"))
    /\ pc' = "test3b"
    /\ UNCHANGED <<search_frame, idx>>

\* Lines 133-134, condition false: the next key is a core key.
Test3bSkip ==
    /\ pc = "test3b"
    /\ idx < Len(DictKeys(value))
    /\ SortedKeys(DictKeys(value))[idx + 1] \in Range(core_keys)
    /\ idx' = idx + 1
    /\ UNCHANGED <<search_frame, pc, test_val, mac, candidates, output>>

\* Lines 133-140: the core keys and the next key; only a match is printed.
Test3bStep ==
    /\ pc = "test3b"
    /\ idx < Len(DictKeys(value))
    /\ LET key == SortedKeys(DictKeys(value))[idx + 1]
       IN  /\ key \notin Range(core_keys)
           /\ test_val' = DictOnly(value, Range(core_keys) \cup {key})
           /\ mac' = calc_mac(test_val')
           /\ candidates' = Append(candidates,
                  Candidate("test3b", key, test_val', json_str(test_val'), mac'))
           /\ output' = IF mac' = expected_mac
                        THEN Append(output, ResultLine(TRUE, "test3b", key))
                        ELSE output
    /\ idx' = idx + 1
    /\ UNCHANGED <<search_frame, pc>>

\* Line 133: the keys are exhausted.
Test3bDone ==
    /\ pc = "test3b"
    /\ idx = Len(DictKeys(value))
    /\ pc' = "test4"
    /\ idx' = 0
    /\ UNCHANGED <<search_frame, test_val, mac, candidates, output>>

\* Lines 160-163: the next serialization format of the whole value.
Test4Step ==
    /\ pc = "test4"
    /\ idx < Len(format_names)
    /\ LET name      == formats(value)[idx + 1][1]
           json_str_ == formats(value)[idx + 1][2]
       IN  /\ mac' = hmac_sha256(seed, device_id \o path \o json_str_)
           /\ candidates' = Append(candidates,
                  Candidate("test4", name, value, json_str_, mac'))
           /\ output' = Append(output, ResultLine(mac' = expected_mac, "test4", name))
    /\ idx' = idx + 1
    /\ UNCHANGED <<search_frame, pc, test_val>>

\* Line 160: the formats are exhausted.
Test4Done ==
    /\ pc = "test4"
    /\ idx = Len(format_names)
    /\ pc' = "test5"
    /\ idx' = 0
    /\ UNCHANGED <<search_frame, test_val, mac, candidates, output>>

\* Lines 173-179: the value is copied and its 'path' entry read.
Test5Setup ==
    /\ pc = "test5"
    /\ HasKey(value, "path")
    /\ test_val' = value
    /\ pc' = "test5loop"
    /\ UNCHANGED <<search_frame, idx, mac, candidates, output>>

\* Line 174: the value has no 'path' entry; test_val['path'] raises KeyError
\* and the script ends with a traceback.
Test5KeyError ==
    /\ pc = "test5"
    /\ ~HasKey(value, "path")
    /\ test_val' = value
    /\ output' = Append(output,
           [line |-> "TRACEBACK", test |-> "test5", name |-> "KeyError"])
    /\ pc' = "crashed"
    /\ UNCHANGED <<search_frame, idx, mac, candidates>>

\* Lines 181-185: the next variation of the 'path' entry.
Test5Step ==
    /\ pc = "test5loop"
    /\ idx < Len(variations(DictItem(value, "path").s))
    /\ LET name     == variations(DictItem(value, "path").s)[idx + 1][1]
           path_val == variations(DictItem(value, "path").s)[idx + 1][2]
       IN  /\ test_val' = DictSet(test_val, "path", PyStr(path_val))
           /\ mac' = calc_mac(test_val')
           /\ candidates' = Append(candidates,
                  Candidate("test5", name, test_val', json_str(test_val'), mac'))
           /\ output' = Append(output, ResultLine(mac' = expected_mac, "test5", name))
    /\ idx' = idx + 1
    /\ UNCHANGED <<search_frame, pc>>

\* Line 181: the variations are exhausted.
Test5Done ==
    /\ pc = "test5loop"
    /\ idx = Len(variations(DictItem(value, "path").s))
    /\ pc' = "sample"
    /\ UNCHANGED <<search_frame, idx, test_val, mac, candidates, output>>

\* Lines 187-194: the length and the first 300 characters of the JSON of
\* the whole value.
Sample ==
    /\ pc = "sample"
    /\ LET js == json_str(value)
       IN  output' = Append(output,
               [line |-> "SAMPLE", test |-> "sample",
                name |-> SubSeq(js, 1, IF Len(js) < 300 THEN Len(js) ELSE 300),
                length |-> Len(js)])
    /\ pc' = "finished"
    /\ UNCHANGED <<search_frame, idx, test_val, mac, candidates>>

NextSearch ==
    \/ Test1NoMatch
    \/ Test1Match
    \/ Test1Exhausted
    \/ Test2Step
    \/ Test2Done
    \/ Test3Core
    \/ Test3bSkip
    \/ Test3bStep
    \/ Test3bDone
    \/ Test4Step
    \/ Test4Done
    \/ Test5Setup
    \/ Test5KeyError
    \/ Test5Step
    \/ Test5Done
    \/ Sample

SpecSearch == InitSearch /\ [][NextSearch]_vars

-----------------------------------------------------------------------------
(* SpecObjects: the operations on the objects of the interpreter.  heap    *)
(* holds every object at its identity: a scalar as itself, a dict as its   *)
(* entries <<key, identity>> and a list as the identities of its items, so *)
(* that an object reached from two places is one object and an assignment  *)
(* to an item is seen from both.  value is the loaded value as a tree and  *)
(* ValueRef the identity of its root; an object that nothing refers to any *)
(* more is dropped.                                                        *)

\* A new object: it gets the next identity.
Alloc(h, obj) == [h |-> Append(h, obj), id |-> Len(h) + 1]

\* json.load: the objects of the tree v, every node a new object, the root
\* last.
RECURSIVE LoadValue(_, _), LoadSeq(_, _)
LoadValue(h, v) ==
    IF IsDict(v) THEN
        LET r == LoadSeq(h, [i \in 1..Len(v.entries) |-> v.entries[i][2]])
        IN  Alloc(r.h, PyDict([i \in 1..Len(v.entries) |->
                                  <<v.entries[i][1], r.ids[i]>>]))
    ELSE IF IsList(v) THEN
        LET r == LoadSeq(h, v.items)
        IN  Alloc(r.h, PyList(r.ids))
    ELSE Alloc(h, v)
LoadSeq(h, vs) ==
    IF Len(vs) = 0 THEN [h |-> h, ids |-> <<>>]
    ELSE LET r    == LoadValue(h, Head(vs))
             rest == LoadSeq(r.h, Tail(vs))
         IN  [h |-> rest.h, ids |-> <<r.id>> \o rest.ids]

\* The value an object stands for, as a tree.
RECURSIVE Deref(_, _)
Deref(h, id) ==
    IF IsDict(h[id]) THEN
        PyDict([i \in 1..Len(h[id].entries) |->
                   <<h[id].entries[i][1], Deref(h, h[id].entries[i][2])>>])
    ELSE IF IsList(h[id]) THEN
        PyList([i \in 1..Len(h[id].items) |-> Deref(h, h[id].items[i])])
    ELSE h[id]

\* analyze-json.py:36-58 on objects: the dict branch fills a new
\* OrderedDict, the list branch builds a new list, anything else is
\* returned as it is.
RECURSIVE HeapPrune(_, _), HeapPruneEntries(_, _, _, _), HeapPruneItems(_, _)
HeapPrune(h, id) ==
    IF IsDict(h[id]) THEN
        LET r == HeapPruneEntries(h, id, PruneKeyOrder(h[id]), <<>>)
        IN  Alloc(r.h, PyDict(r.entries))
    ELSE IF IsList(h[id]) THEN
        LET r == HeapPruneItems(h, h[id].items)
        IN  Alloc(r.h, PyList(r.ids))
    ELSE [h |-> h, id |-> id]
HeapPruneEntries(h, id, ks, result) ==
    IF Len(ks) = 0 THEN [h |-> h, entries |-> result]
    ELSE LET k == Head(ks)
             r == HeapPrune(h, DictItem(h[id], k))
         IN  HeapPruneEntries(r.h, id, Tail(ks),
                 IF PruneSkips(r.h[r.id]) THEN result
                 ELSE Append(result, <<k, r.id>>))
HeapPruneItems(h, ids) ==
    IF Len(ids) = 0 THEN [h |-> h, ids |-> <<>>]
    ELSE LET r    == HeapPrune(h, Head(ids))
             rest == HeapPruneItems(r.h, Tail(ids))
         IN  [h |-> rest.h, ids |-> <<r.id>> \o rest.ids]

\* find-mac-keys.py:47-53 on objects: a new OrderedDict of the sorted
\* (key, sorted value) pairs, a new list, or the object itself.
RECURSIVE HeapSort(_, _), HeapSortEntries(_, _, _, _), HeapSortItems(_, _)
HeapSort(h, id) ==
    IF IsDict(h[id]) THEN
        LET r == HeapSortEntries(h, id, SortedKeys(DictKeys(h[id])), <<>>)
        IN  Alloc(r.h, PyDict(r.entries))
    ELSE IF IsList(h[id]) THEN
        LET r == HeapSortItems(h, h[id].items)
        IN  Alloc(r.h, PyList(r.ids))
    ELSE [h |-> h, id |-> id]
HeapSortEntries(h, id, ks, result) ==
    IF Len(ks) = 0 THEN [h |-> h, entries |-> result]
    ELSE LET k == Head(ks)
             r == HeapSort(h, DictItem(h[id], k))
         IN  HeapSortEntries(r.h, id, Tail(ks), Append(result, <<k, r.id>>))
HeapSortItems(h, ids) ==
    IF Len(ids) = 0 THEN [h |-> h, ids |-> <<>>]
    ELSE LET r    == HeapSort(h, Head(ids))
             rest == HeapSortItems(r.h, Tail(ids))
         IN  [h |-> rest.h, ids |-> <<r.id>> \o rest.ids]

\* Mutant of DictCopy: test_val = value, a second name for the same object.
DictAlias(h, id) == [h |-> h, id |-> id]

\* dict(d), find-mac-keys.py:173: a new dict with the entries of d; the
\* values of the entries are the same objects.
DictCopy(h, id) == Alloc(h, h[id])

\* d[k] = v: the object d itself is changed.
SetItem(h, id, k, vid) == [h EXCEPT ![id] = DictSet(h[id], k, vid)]

\* The identity of the root of the loaded value: its objects are the first
\* ValueRef objects of the heap.
ValueRef == LoadValue(<<>>, value).id

\* The objects that are still referred to when test_val is bound anew: the
\* loaded value's.
Loaded == SubSeq(heap, 1, ValueRef)

\* The heap after calc_mac(test_val), find-mac-keys.py:56-59: the sorted
\* copy it makes is dropped on return, what it did to the objects that were
\* there before is kept.
AfterCalcMac(h, id) == SubSeq(HeapSort(h, id).h, 1, Len(h))

\* The values drawn: the value trees of fewer than MaxNodes nodes and the
\* extension dicts.
ObjectValues == ValuesUpTo(MaxNodes - 1) \cup ExtensionValues

InitObjects ==
    /\ pc = "loaded"
    /\ value \in ObjectValues
    /\ heap = LoadValue(<<>>, value).h
    /\ ref = 0
    /\ seed = ""
    /\ device_id = ""
    /\ path = ""
    /\ value_json = ""
    /\ message = ""
    /\ calculated_mac = NoMac
    /\ secure_prefs = PyNone
    /\ file_macs = <<>>
    /\ filter_path = ""
    /\ idx = 0
    /\ passed = 0
    /\ failed = 0
    /\ failed_items = <<>>
    /\ output = <<>>
    /\ expected_mac = NoMac
    /\ test_val = PyNone
    /\ mac = NoMac
    /\ candidates = <<>>

\* The variables the operations on objects leave alone.
objects_frame ==
    <<seed, device_id, path, value, value_json, message, calculated_mac,
      batch_vars, expected_mac, test_val, mac, candidates>>

\* sorted_val = prune_empty_recursive(value), analyze-json.py:80
PruneCall ==
    /\ LET r == HeapPrune(Loaded, ValueRef)
       IN  heap' = r.h /\ ref' = r.id
    /\ pc' = "pruned"
    /\ UNCHANGED objects_frame

\* sorted_val = sort_dict_recursive(value), find-mac-keys.py:149
SortCall ==
    /\ LET r == HeapSort(Loaded, ValueRef)
       IN  heap' = r.h /\ ref' = r.id
    /\ pc' = "sorted"
    /\ UNCHANGED objects_frame

\* find-mac-keys.py:68-69: a key removal and the MAC of its result.
KeyRemoval ==
    /\ IsDict(value)
    /\ \E key \in Range(DictKeys(value)) :
          LET r == Alloc(Loaded, DictWithout(Loaded[ValueRef], {key}))
          IN  heap' = AfterCalcMac(r.h, r.id) /\ ref' = r.id
    /\ pc' = "transformed"
    /\ UNCHANGED objects_frame

\* find-mac-keys.py:102-103: an exclusion list and the MAC of its result.
KeyExclusion ==
    /\ IsDict(value)
    /\ \E i \in 1..Len(ExcludeLists) :
          LET r == Alloc(Loaded, DictWithout(Loaded[ValueRef], Range(ExcludeLists[i])))
          IN  heap' = AfterCalcMac(r.h, r.id) /\ ref' = r.id
    /\ pc' = "transformed"
    /\ UNCHANGED objects_frame

\* find-mac-keys.py:124-125, 135-137: the restriction to the core keys, or
\* to the core keys and one more key, and the MAC of its result.
KeyRestriction ==
    /\ IsDict(value)
    /\ \E test_keys \in {Range(core_keys)} \cup
                        {Range(core_keys) \cup {k} : k \in Range(DictKeys(value))} :
          LET r == Alloc(Loaded, DictOnly(Loaded[ValueRef], test_keys))
          IN  heap' = AfterCalcMac(r.h, r.id) /\ ref' = r.id
    /\ pc' = "transformed"
    /\ UNCHANGED objects_frame

\* find-mac-keys.py:173: test_val = dict(value)
CopyValue ==
    /\ IsDict(value)
    /\ LET r == DictCopy(Loaded, ValueRef)
       IN  heap' = r.h /\ ref' = r.id
    /\ pc' = "copied"
    /\ UNCHANGED objects_frame

\* find-mac-keys.py:181-183: test_val['path'] = path_val for one of the
\* variations of the original 'path' entry, a new string, and the MAC of
\* test_val.  The string of the iteration before is no longer referred to.
PathReplace ==
    /\ pc \in {"copied", "replaced"}
    /\ HasKey(heap[ref], "path")
    /\ IsStr(heap[DictItem(heap[ref], "path")])
    /\ \E i \in 1..3 :
          LET original_path == DictItem(value, "path").s
              s == Alloc(SubSeq(heap, 1, ref),
                         PyStr(variations(original_path)[i][2]))
              h == SetItem(s.h, ref, "path", s.id)
          IN  heap' = AfterCalcMac(h, ref)
    /\ pc' = "replaced"
    /\ UNCHANGED <<objects_frame, ref>>

NextObjects ==
    \/ PruneCall
    \/ SortCall
    \/ KeyRemoval
    \/ KeyExclusion
    \/ KeyRestriction
    \/ CopyValue
    \/ PathReplace

SpecObjects == InitObjects /\ [][NextObjects]_vars

-----------------------------------------------------------------------------
(* SpecSuper: compute_super_mac of the MacEngine on a drawn table of       *)
(* per-path MACs.  file_macs is the table, its records in the order they   *)
(* are given; seed is the super-seed; value_json holds the string the      *)
(* super-MAC is computed over and calculated_mac the super-MAC.            *)

\* The map {path -> mac} of the records, an entry per record in the order
\* of the records, every MAC a string.
MacTable(records) ==
    PyDict([i \in 1..Len(records) |-> <<records[i][1], PyStr(records[i][2])>>])

\* Mutant of SuperMacString: only the records under "a" are covered.
SuperMacStringSubset(records) ==
    value_to_json_chromium(MacTable(SelectSeq(records, LAMBDA r : Head(r[1]) = "a")))

\* The canonical string of the map {path -> mac}, keys sorted.
SuperMacString(records) == value_to_json_chromium(MacTable(records))

\* The HMAC construction of the per-path MAC, keyed by the super-seed, over
\* the canonical string of the table.
compute_super_mac(super_seed, device, records) ==
    hmac_sha256(super_seed, device \o SuperMacString(records))

SuperSeeds == {"SS"}

SuperPaths == {"a.b", "a.n", "a", "b.a", "c"}

\* The MACs of the drawn records, as the 64 hexadecimal characters a
\* capture holds.
MacTexts ==
    {"0123456789ABCDEF0123456789ABCDEF0123456789ABCDEF0123456789ABCDEF",
     "FEDCBA9876543210FEDCBA9876543210FEDCBA9876543210FEDCBA9876543210"}

\* The tables of up to n records <<path, mac>> with pairwise different
\* paths, in any order.
RECURSIVE MacTables(_)
MacTables(n) ==
    IF n = 0 THEN {<<>>}
    ELSE LET less == MacTables(n - 1)
         IN  less \cup
             UNION {{Append(t, <<p, m>>) :
                        p \in SuperPaths \ {t[i][1] : i \in 1..Len(t)},
                        m \in MacTexts} : t \in less}

InitSuper ==
    /\ pc = "super"
    /\ seed \in SuperSeeds
    /\ device_id \in DeviceIds
    /\ file_macs \in MacTables(MaxRecords)
    /\ path = ""
    /\ value = PyNone
    /\ value_json = ""
    /\ message = ""
    /\ calculated_mac = NoMac
    /\ secure_prefs = PyNone
    /\ filter_path = ""
    /\ idx = 0
    /\ passed = 0
    /\ failed = 0
    /\ failed_items = <<>>
    /\ output = <<>>
    /\ SearchIdle

ComputeSuperMac ==
    /\ pc = "super"
    /\ value' = MacTable(file_macs)
    /\ value_json' = SuperMacString(file_macs)
    /\ message' = device_id \o SuperMacString(file_macs)
    /\ calculated_mac' = compute_super_mac(seed, device_id, file_macs)
    /\ pc' = "done"
    /\ UNCHANGED <<seed, device_id, path, batch_vars, search_vars>>

NextSuper == ComputeSuperMac

SpecSuper == InitSuper /\ [][NextSuper]_vars

-----------------------------------------------------------------------------
(* SpecDebug: debug-extension.py on a drawn extension dict and a drawn     *)
(* expected MAC.  value is the extension's dict, path the global PATH,     *)
(* seed FILE_SEED and device_id DEVICE_ID; output holds what the           *)
(* experiments, the key order analysis and the detailed output print.      *)

\* debug-extension.py:84-86: sorted keys, no ASCII escaping.
json1(val) == json_dumps(sort_dict_recursive(val), ",", ":")

\* debug-extension.py:84, 93: sorted keys, ASCII escaping.
json2(val) == json_dumps_ascii(sort_dict_recursive(val), ",", ":")

\* Mutant of json3: the sorted value is serialized.
json3_sorted(val) == json_dumps(sort_dict_recursive(val), ",", ":")

\* debug-extension.py:101: the value as it is, no sorting.
json3(val) == json_dumps(val, ",", ":")

\* The two maps of the scenario: the same entries inserted in either order.
ScenarioMaps ==
    {PyDict(<< <<"a", PyInt(1)>>, <<"b", PyInt(2)>> >>),
     PyDict(<< <<"b", PyInt(2)>>, <<"a", PyInt(1)>> >>)}

\* The values drawn: the dicts among the value trees of fewer than MaxNodes
\* nodes, the maps of the scenario and the extension dicts.
DebugValues ==
    {v \in ValuesUpTo(MaxNodes - 1) : IsDict(v)} \cup ScenarioMaps \cup ExtensionValues

\* debug-extension.py:33-53: the globals after the load of the test data;
\* the expected MAC is the MAC of one of the experiments or of none.
InitDebug ==
    /\ pc = "experiment1"
    /\ seed = "S"
    /\ device_id \in DeviceIds
    /\ path = PATH
    /\ value \in DebugValues
    /\ expected_mac \in
            {hmac_sha256(seed, device_id \o PATH \o json1(value)),
             hmac_sha256(seed, device_id \o PATH \o json3(value)),
             ForeignMac}
    /\ output = <<>>
    /\ test_val = PyNone
    /\ mac = NoMac
    /\ candidates = <<>>
    /\ heap = <<>>
    /\ ref = 0
    /\ idx = 0
    /\ value_json = ""
    /\ message = ""
    /\ calculated_mac = NoMac
    /\ secure_prefs = PyNone
    /\ file_macs = <<>>
    /\ filter_path = ""
    /\ passed = 0
    /\ failed = 0
    /\ failed_items = <<>>

\* The variables the script assigns: its position and what it printed.
debug_frame ==
    <<seed, device_id, path, value, value_json, message, calculated_mac,
      secure_prefs, file_macs, filter_path, idx, passed, failed, failed_items,
      search_vars>>

\* What an experiment prints: its MAC and whether it is the expected one.
ExperimentLine(n, json, m) ==
    [line |-> "EXPERIMENT", n |-> n, json |-> json, mac |-> m,
     match |-> (m = expected_mac)]

\* debug-extension.py:84-91
Experiment1 ==
    /\ pc = "experiment1"
    /\ output' = Append(output,
           ExperimentLine(1, json1(value),
                          hmac_sha256(seed, device_id \o path \o json1(value))))
    /\ pc' = "experiment2"
    /\ UNCHANGED debug_frame

\* debug-extension.py:93-98
Experiment2 ==
    /\ pc = "experiment2"
    /\ output' = Append(output,
           ExperimentLine(2, json2(value),
                          hmac_sha256(seed, device_id \o path \o json2(value))))
    /\ pc' = "experiment3"
    /\ UNCHANGED debug_frame

\* debug-extension.py:100-106
Experiment3 ==
    /\ pc = "experiment3"
    /\ output' = Append(output,
           ExperimentLine(3, json3(value),
                          hmac_sha256(seed, device_id \o path \o json3(value))))
    /\ pc' = "key_order"
    /\ UNCHANGED debug_frame

\* debug-extension.py:131-133: the positions at which the keys differ from
\* the sorted keys, counted from 0.
KeyDifferences(original_keys, sorted_keys) ==
    SelectSeq([i \in 1..Len(original_keys) |->
                  [position |-> i - 1, original |-> original_keys[i],
                   sorted |-> sorted_keys[i]]],
              LAMBDA d : d.original # d.sorted)

\* debug-extension.py:114-133
KeyOrderAnalysis ==
    /\ pc = "key_order"
    /\ LET original_keys == DictKeys(value)
           sorted_keys   == SortedKeys(DictKeys(value))
       IN  output' = Append(output,
               [line |-> "KEY ORDER", original |-> original_keys,
                sorted |-> sorted_keys,
                already_sorted |-> (original_keys = sorted_keys),
                differences |-> IF original_keys = sorted_keys THEN <<>>
                                ELSE KeyDifferences(original_keys, sorted_keys)])
    /\ pc' = "detail"
    /\ UNCHANGED debug_frame

\* The lengths of the excerpts of debug-extension.py:143 and 146.
DEBUG_EXCERPT == 500

\* s[-n:]
Suffix(s, n) == SubSeq(s, IF Len(s) < n THEN 1 ELSE Len(s) - n + 1, Len(s))

\* debug-extension.py:140-146
DetailedOutput ==
    /\ pc = "detail"
    /\ LET js == json1(value)
       IN  output' = Append(output,
               [line |-> "DETAIL", length |-> Len(js),
                first |-> Prefix(js, DEBUG_EXCERPT),
                last |-> Suffix(js, DEBUG_EXCERPT)])
    /\ pc' = "finished"
    /\ UNCHANGED debug_frame

NextDebug ==
    \/ Experiment1
    \/ Experiment2
    \/ Experiment3
    \/ KeyOrderAnalysis
    \/ DetailedOutput

SpecDebug == InitDebug /\ [][NextDebug]_vars

-----------------------------------------------------------------------------
(* Notions the properties are stated with *)

IsEmptyContainer(v) ==
    \/ IsDict(v) /\ Len(v.entries) = 0
    \/ IsList(v) /\ Len(v.items) = 0

\* A value that holds nothing but empty containers under dict keys: an empty
\* list, or a dict all of whose entries vanish.  A list with elements never
\* vanishes.
RECURSIVE Vanishes(_)
Vanishes(v) ==
    \/ IsList(v) /\ Len(v.items) = 0
    \/ IsDict(v) /\ \A i \in 1..Len(v.entries) : Vanishes(v.entries[i][2])

\* r is v with nothing but dict entries removed: lists keep their length and
\* every empty container they hold, at its index; no entry of v that holds an
\* empty container is left in r; scalars are unchanged.
RECURSIVE PrunedShape(_, _)
PrunedShape(v, r) ==
    IF IsList(v) THEN
        /\ IsList(r)
        /\ Len(r.items) = Len(v.items)
        /\ \A i \in 1..Len(v.items) :
              /\ PrunedShape(v.items[i], r.items[i])
              /\ IsEmptyContainer(v.items[i]) => r.items[i] = v.items[i]
    ELSE IF IsDict(v) THEN
        /\ IsDict(r)
        /\ \A i \in 1..Len(v.entries) :
              IsEmptyContainer(v.entries[i][2]) => ~HasKey(r, v.entries[i][1])
        /\ \A i \in 1..Len(r.entries) :
              /\ HasKey(v, r.entries[i][1])
              /\ PrunedShape(DictItem(v, r.entries[i][1]), r.entries[i][2])
    ELSE r = v

\* The permutations of 1..n.
Perms(n) == {f \in [1..n -> 1..n] : \A i, j \in 1..n : i # j => f[i] # f[j]}

\* The values that hold the same key-to-value pairs as v with the entries of
\* any of its dicts, at any depth, inserted in any order.
RECURSIVE Reorderings(_)
Reorderings(v) ==
    IF IsList(v) THEN
        {PyList(xs) : xs \in {f \in [1..Len(v.items) ->
                                       UNION {Reorderings(v.items[i]) : i \in 1..Len(v.items)}] :
                                 \A i \in 1..Len(v.items) : f[i] \in Reorderings(v.items[i])}}
    ELSE IF IsDict(v) THEN
        LET n == Len(v.entries)
            children == {f \in [1..n -> UNION {Reorderings(v.entries[i][2]) : i \in 1..n}] :
                            \A i \in 1..n : f[i] \in Reorderings(v.entries[i][2])}
        IN  {PyDict([i \in 1..n |-> <<v.entries[perm[i]][1], f[perm[i]]>>]) :
                perm \in Perms(n), f \in children}
    ELSE {v}

\* The same JSON value: dicts are compared as sets of entries, lists element
\* by element, scalars with their type.
RECURSIVE JsonEq(_, _)
JsonEq(a, b) ==
    IF IsDict(a) /\ IsDict(b) THEN
        /\ Len(a.entries) = Len(b.entries)
        /\ \A i \in 1..Len(a.entries) :
              /\ HasKey(b, a.entries[i][1])
              /\ JsonEq(a.entries[i][2], DictItem(b, a.entries[i][1]))
    ELSE IF IsList(a) /\ IsList(b) THEN
        /\ Len(a.items) = Len(b.items)
        /\ \A i \in 1..Len(a.items) : JsonEq(a.items[i], b.items[i])
    ELSE a = b

\* The same JSON value after the entries that vanish are left out of every
\* dict.
RECURSIVE JsonEqModuloPruning(_, _)
JsonEqModuloPruning(a, b) ==
    IF IsDict(a) /\ IsDict(b) THEN
        /\ \A i \in 1..Len(a.entries) :
              Vanishes(a.entries[i][2]) \/
                 /\ HasKey(b, a.entries[i][1])
                 /\ JsonEqModuloPruning(a.entries[i][2], DictItem(b, a.entries[i][1]))
        /\ \A i \in 1..Len(b.entries) :
              Vanishes(b.entries[i][2]) \/
                 /\ HasKey(a, b.entries[i][1])
                 /\ ~Vanishes(DictItem(a, b.entries[i][1]))
    ELSE IF IsList(a) /\ IsList(b) THEN
        /\ Len(a.items) = Len(b.items)
        /\ \A i \in 1..Len(a.items) : JsonEqModuloPruning(a.items[i], b.items[i])
    ELSE a = b

\* The list v with its elements in the order perm.
Reordered(v, perm) == PyList([i \in 1..Len(v.items) |-> v.items[perm[i]]])

\* The snapshot has a node at the end of the path: every part is a key of
\* the dict the parts before it lead to.
RECURSIVE PathPresent(_, _)
PathPresent(obj, parts) ==
    IF Len(parts) = 0 THEN TRUE
    ELSE /\ IsDict(obj)
         /\ HasKey(obj, Head(parts))
         /\ PathPresent(DictItem(obj, Head(parts)), Tail(parts))

-----------------------------------------------------------------------------
(* Properties of calculate_mac and of the functions under it (SpecCalc) *)

\* C1. Pruning asymmetry: the result of prune_empty_recursive has lost
\* every dict entry whose value is an empty list or an empty dict and has
\* lost no list element; a list keeps its length, and an empty dict or empty
\* list that is an element of a list stays at its index.
C1_PruningAsymmetry == PrunedShape(value, prune_empty_recursive(value))

\* C1 case: a dict with an entry holding an empty list and an entry holding
\* a list whose only element is an empty dict.
C1_Witness ==
    /\ pc = "done"
    /\ value = PyDict(<< <<"x", PyList(<<PyDict(<<>>)>>)>>, <<"y", PyList(<<>>)>> >>)
    /\ prune_empty_recursive(value) = PyDict(<< <<"x", PyList(<<PyDict(<<>>)>>)>> >>)
    /\ value_json = "{\"x\":[{}]}"

\* C2. Pruning is bottom-up: the parent dict drops an entry exactly when the
\* entry's value vanishes, that is when it is empty once its own entries have
\* been pruned, whether or not it was empty to begin with.
C2_BottomUp ==
    IsDict(value) =>
        \A i \in 1..Len(value.entries) :
            Vanishes(value.entries[i][2])
                <=> ~HasKey(prune_empty_recursive(value), value.entries[i][1])

\* C2 case: {"x": {"y": []}}, whose entry x is not empty but becomes empty.
C2_Witness ==
    /\ pc = "done"
    /\ value = PyDict(<< <<"x", PyDict(<< <<"y", PyList(<<>>)>> >>)>> >>)
    /\ prune_empty_recursive(value) = PyDict(<<>>)

\* C3. Key-order independence: every value that differs from the evaluated
\* one only in the insertion order of dict entries, at any depth, has the
\* same canonical string and the same MAC.
C3_KeyOrderIndependence ==
    pc = "done" =>
        \A w \in Reorderings(value) :
            /\ value_to_json_chromium(w) = value_json
            /\ calculate_mac(seed, device_id, path, w) = calculated_mac

\* C3 case: a list holding a dict whose keys were inserted in descending
\* order.
C3_Witness ==
    /\ pc = "done"
    /\ value = PyList(<<PyDict(<< <<"y", PyInt(1)>>, <<"x", PyBool(TRUE)>> >>)>>)
    /\ PyList(<<PyDict(<< <<"x", PyBool(TRUE)>>, <<"y", PyInt(1)>> >>)>>)
            \in Reorderings(value)
    /\ value_json = "[{\"x\":true,\"y\":1}]"

\* C4 as claimed. List-order sensitivity: every reordering of the elements
\* of a list that gives a different list gives a different canonical string.
C4_ListOrderSensitivity_Claimed ==
    (pc = "done" /\ IsList(value)) =>
        \A perm \in Perms(Len(value.items)) :
            ~JsonEq(Reordered(value, perm), value)
                => value_to_json_chromium(Reordered(value, perm)) # value_json

\* C4 as amended. Every reordering of the elements of a list that gives a
\* list that still differs once the vanishing entries are left out of
\* every dict gives a different canonical string.
C4_ListOrderSensitivity ==
    (pc = "done" /\ IsList(value)) =>
        \A perm \in Perms(Len(value.items)) :
            ~JsonEqModuloPruning(Reordered(value, perm), value)
                => value_to_json_chromium(Reordered(value, perm)) # value_json

\* C4 case: a list of two dicts that differ after pruning.
C4_Witness ==
    /\ pc = "done"
    /\ value = PyList(<<PyDict(<< <<"x", PyInt(1)>> >>), PyDict(<<>>)>>)
    /\ value_json = "[{\"x\":1},{}]"
    /\ value_to_json_chromium(Reordered(value, <<2, 1>>)) = "[{},{\"x\":1}]"

\* C5. Leaf bypass: a top-level None gives the empty string, a top-level
\* True the text true and a top-level False the text false; none of them
\* is what json.dumps or str() gives.
C5_LeafBypass ==
    pc = "done" =>
        /\ value = PyNone => value_json = ""
        /\ value = PyBool(TRUE) => value_json = "true"
        /\ value = PyBool(FALSE) => value_json = "false"
        /\ IsBool(value) => value_json # PyStrOf(value)
        /\ value = PyNone => value_json # json_dumps(value, ",", ":")

\* C5 case: a top-level True.
C5_Witness ==
    /\ pc = "done"
    /\ value = PyBool(TRUE)
    /\ value_json = "true"
    /\ message = device_id \o path \o "true"

\* C6. A top-level empty list gives [], a top-level dict that is empty or
\* whose entries all vanish gives {}, and the canonical string of any list
\* or dict is enclosed in its own brackets.
C6_TopLevelContainers ==
    pc = "done" =>
        /\ value = PyList(<<>>) => value_json = "[]"
        /\ (IsDict(value) /\ Vanishes(value)) => value_json = "{}"
        /\ IsList(value) =>
              Head(value_json) = "[" /\ CharAt(value_json, Len(value_json)) = "]"
        /\ IsDict(value) =>
              Head(value_json) = "{" /\ CharAt(value_json, Len(value_json)) = "}"

\* C6 case: a top-level dict whose only entry is pruned.
C6_Witness ==
    /\ pc = "done"
    /\ value = PyDict(<< <<"y", PyList(<<>>)>> >>)
    /\ value_json = "{}"

\* C7. For seed S, device id D1, path a.b and value {"x": 1, "y": []}, in
\* either insertion order, the canonical string is {"x":1} and the HMAC
\* message is D1a.b{"x":1}.
C7_Scenario ==
    ( /\ pc = "done"
      /\ seed = "S" /\ device_id = "D1" /\ path = "a.b"
      /\ value \in {PyDict(<< <<"x", PyInt(1)>>, <<"y", PyList(<<>>)>> >>),
                    PyDict(<< <<"y", PyList(<<>>)>>, <<"x", PyInt(1)>> >>)} )
    => /\ value_json = "{\"x\":1}"
       /\ message = "D1a.b{\"x\":1}"
       /\ calculated_mac.key = Utf8Encode("S")
       /\ calculated_mac.msg = Utf8Encode("D1a.b{\"x\":1}")

\* C7 case: the scenario has been evaluated.
C7_Witness ==
    /\ pc = "done"
    /\ seed = "S" /\ device_id = "D1" /\ path = "a.b"
    /\ value = PyDict(<< <<"x", PyInt(1)>>, <<"y", PyList(<<>>)>> >>)
    /\ message = "D1a.b{\"x\":1}"

\* C8. The MAC is the HMAC-SHA256 keyed by the bytes of the seed over the
\* bytes of device id, path and canonical string concatenated in this
\* order, written as the 64 uppercase hexadecimal characters of the whole
\* digest.
C8_MacConstruction ==
    pc = "done" =>
        /\ message = device_id \o path \o value_json
        /\ calculated_mac =
              [key |-> Utf8Encode(seed),
               msg |-> Utf8Encode(device_id \o path \o value_json),
               hexlen |-> 64, hexcase |-> "upper"]

\* C8 case: a MAC computed with the empty seed over a non-empty canonical
\* string.
C8_Witness ==
    /\ pc = "done"
    /\ seed = ""
    /\ value = PyList(<<PyInt(1), PyStr("s")>>)
    /\ value_json = "[1,\"s\"]"
    /\ calculated_mac.hexlen = 64
    /\ Len(calculated_mac.msg) = Len(device_id) + Len(path) + Len(value_json)

-----------------------------------------------------------------------------
(* Properties of main (Spec) *)

\* The last record main evaluated is the one at path, and value is what
\* the lookup returned for it.
LastEvaluated ==
    /\ pc = "loop"
    /\ Len(output) > 0
    /\ output[Len(output)].path = path

\* C10 as claimed. The lookup tells an absent value from a Null: for a path
\* with a missing segment it does not return what it returns for a path that
\* resolves to an explicit null.
C10_AbsentDistinctFromNull_Claimed ==
    (LastEvaluated /\ ~PathPresent(secure_prefs, Split(path, "."))) => value # PyNone


\* The MAC the capture holds for path p.
ExpectedFor(p) == file_macs[CHOOSE i \in 1..Len(file_macs) : file_macs[i][1] = p][2]

\* C12 as claimed. A record whose path is the empty string is rejected at
\* the boundary: it is never looked up and verified, so no PASS or FAIL is
\* reported for it.
C12_EmptyPathRejected_Claimed ==
    \A i \in 1..Len(output) :
        output[i].line \in {"PASS", "FAIL"} => output[i].path # ""

\* C13 as claimed. Expected MACs are compared without regard to letter
\* case: an evaluated record whose expected MAC is the calculated digest in
\* any letter case is reported as a pass.
C13_CaseInsensitive_Claimed ==
    (LastEvaluated /\ HexInCase(ExpectedFor(path), "upper") = calculated_mac)
        => output[Len(output)].line = "PASS"

\* C15. Batch isolation: at every point of the run the PASS and FAIL lines
\* printed so far name, in order and once each, exactly the records taken
\* so far that are neither the _description entry nor excluded by the
\* filter, whatever their outcomes; passed + failed is their number, and the
\* run ends only when every item has been taken.
C15_BatchIsolation ==
    LET taken    == [i \in 1..idx |-> file_macs[i][1]]
        evaluated == SelectSeq(taken, LAMBDA p :
                        /\ p # "_description"
                        /\ (filter_path = "" \/ Contains(p, filter_path)))
        verdicts == SelectSeq(output, LAMBDA o : o.line \in {"PASS", "FAIL"})
    IN  /\ [i \in 1..Len(verdicts) |-> verdicts[i].path] = evaluated
        /\ passed + failed = Len(evaluated)
        /\ passed = Len(SelectSeq(verdicts, LAMBDA o : o.line = "PASS"))
        /\ pc = "done" => idx = Len(file_macs)

\* C15 case: a finished run in which a failed record is followed by a
\* passed one and another item was skipped.
C15_Witness ==
    /\ pc = "done"
    /\ Len(file_macs) = 3
    /\ output[1].line = "FAIL"
    /\ output[2].line = "PASS"
    /\ output[3] = [line |-> "RESULTS", passed |-> 1, failed |-> 1]

\* C16. The report details exactly the first min(3, failures) failed
\* records, in the order in which they failed, each with its expected MAC,
\* its calculated MAC, the device id, and the length and text of its
\* canonical string; it details no passed record, and the failed count of
\* the results line counts every failure.
C16_DetailReport ==
    pc = "done" =>
        LET fails   == SelectSeq(output, LAMBDA o : o.line = "FAIL")
            details == SelectSeq(output, LAMBDA o : o.line = "DETAIL")
            results == SelectSeq(output, LAMBDA o : o.line = "RESULTS")
        IN  /\ Len(details) = (IF Len(fails) < 3 THEN Len(fails) ELSE 3)
            /\ Len(results) = 1 /\ results[1].failed = Len(fails)
            /\ \A i \in 1..Len(details) :
                  LET p == details[i].path
                      v == get_value_at_path(secure_prefs, p)
                  IN  /\ i <= Len(fails) /\ p = fails[i].path
                      /\ details[i].expected = ExpectedFor(p)
                      /\ details[i].calculated = calculate_mac(seed, device_id, p, v)
                      /\ details[i].device = device_id
                      /\ details[i].json_length = Len(value_to_json_chromium(v))
                      /\ details[i].excerpt = <<value_to_json_chromium(v)>>

\* C16 case: four records failed and three are detailed.
C16_Witness ==
    /\ pc = "done"
    /\ failed = 4
    /\ Len(SelectSeq(output, LAMBDA o : o.line = "DETAIL")) = 3
    /\ output[5] = [line |-> "RESULTS", passed |-> 0, failed |-> 4]

-----------------------------------------------------------------------------
(* Properties of get_value_at_path (SpecLookup) *)

\* C11. A lookup never ends in an exception, and a lookup that does not
\* resolve (a key is missing, or a part is applied to a node that is not a
\* dict) returns None.
C11_LookupNeverRaises ==
    pc = "found" =>
        /\ value.t # "raised"
        /\ ~PathPresent(secure_prefs, Split(path, ".")) => value = PyNone

\* C11 case: the path goes through a list.
C11_Witness ==
    /\ pc = "found"
    /\ secure_prefs = PyDict(<< <<"x", PyList(<<PyInt(1)>>)>> >>)
    /\ path = "x.y"
    /\ value = PyNone

-----------------------------------------------------------------------------
(* More properties of calculate_mac (SpecCalc) *)

\* C14. With the empty seed calculate_mac ends without error in a MAC of
\* 64 uppercase hexadecimal characters, the one it gives for a non-empty
\* seed but for the key.
C14_EmptySeedAccepted ==
    (pc = "done" /\ seed = "") =>
        /\ calculated_mac = [calculate_mac("S", device_id, path, value) EXCEPT !.key = <<>>]
        /\ calculated_mac.hexlen = 64
        /\ calculated_mac.hexcase = "upper"

\* C14 case: the scenario value under the empty seed.
C14_Witness ==
    /\ pc = "done"
    /\ seed = ""
    /\ value = PyDict(<< <<"x", PyInt(1)>>, <<"y", PyList(<<>>)>> >>)
    /\ calculated_mac.key = <<>>
    /\ calculated_mac.hexlen = 64

\* No dict entry of v, at any depth, holds an empty dict or an empty list.
RECURSIVE PruneFree(_)
PruneFree(v) ==
    IF IsDict(v) THEN
        \A i \in 1..Len(v.entries) :
            ~IsEmptyContainer(v.entries[i][2]) /\ PruneFree(v.entries[i][2])
    ELSE IF IsList(v) THEN
        \A i \in 1..Len(v.items) : PruneFree(v.items[i])
    ELSE TRUE

\* C27. On a dict in which no dict entry at any depth holds an empty dict
\* or an empty list, the search and the verifier canonicalize alike: the
\* sorted JSON string calc_mac makes is the canonical string calculate_mac
\* made, and the MAC of the identity hypothesis under the same seed, device
\* id and path is the verifier's MAC.
C27_SearchMatchesVerifier ==
    (pc = "done" /\ IsDict(value) /\ PruneFree(value)) =>
        /\ json_str(value) = value_json
        /\ calc_mac(value) = calculated_mac

\* C27 case: a dict whose keys were inserted in descending order, one of
\* them holding a list with an empty dict as its element.
C27_Witness ==
    /\ pc = "done"
    /\ value = PyDict(<< <<"y", PyList(<<PyDict(<<>>)>>)>>, <<"x", PyNone>> >>)
    /\ PruneFree(value)
    /\ value_json = "{\"x\":null,\"y\":[{}]}"
    /\ calc_mac(value) = calculated_mac

\* C28. prune_empty_recursive is idempotent: pruning the pruned value gives
\* the pruned value again, and the canonical string of the pruned value is
\* the canonical string of the value.
C28_PruneIdempotent ==
    pc = "done" =>
        /\ prune_empty_recursive(prune_empty_recursive(value))
              = prune_empty_recursive(value)
        /\ value_to_json_chromium(prune_empty_recursive(value)) = value_json

\* C28 case: a list holding a dict that pruning empties; the pruned value
\* is not the value and is left as it is by a second pruning.
C28_Witness ==
    /\ pc = "done"
    /\ value = PyList(<<PyDict(<< <<"x", PyList(<<>>)>> >>), PyInt(1)>>)
    /\ prune_empty_recursive(value) = PyList(<<PyDict(<<>>), PyInt(1)>>)
    /\ prune_empty_recursive(value) # value
    /\ value_json = "[{},1]"

\* The keys of every dict of v, at any depth, are in ascending order.
RECURSIVE KeysAscending(_)
KeysAscending(v) ==
    IF IsDict(v) THEN
        /\ \A i \in 1..(Len(v.entries) - 1) :
              StrLess(v.entries[i][1], v.entries[i + 1][1])
        /\ \A i \in 1..Len(v.entries) : KeysAscending(v.entries[i][2])
    ELSE IF IsList(v) THEN
        \A i \in 1..Len(v.items) : KeysAscending(v.items[i])
    ELSE TRUE

\* C29. In the result of prune_empty_recursive no dict at any depth, the
\* dicts that are elements of lists included, has an entry holding an empty
\* dict or an empty list, and the keys of every dict are in ascending
\* order.
C29_PrunedTreeInvariant ==
    /\ PruneFree(prune_empty_recursive(value))
    /\ KeysAscending(prune_empty_recursive(value))

\* C29 case: a list whose element is a dict with its keys in descending
\* order and an entry holding an empty list.
C29_Witness ==
    /\ pc = "done"
    /\ value = PyList(<<PyDict(<< <<"y", PyInt(1)>>, <<"x", PyList(<<>>)>> >>)>>)
    /\ ~PruneFree(value)
    /\ prune_empty_recursive(value) = PyList(<<PyDict(<< <<"y", PyInt(1)>> >>)>>)

-----------------------------------------------------------------------------
(* Properties of the hypothesis search (SpecSearch) *)

\* The MAC computations of one test, in order.
CandidatesOf(test) == SelectSeq(candidates, LAMBDA c : c.test = test)

\* len(set(value.keys()) - set(core_keys))
NonCoreKeyCount == Cardinality(Range(DictKeys(value)) \ Range(core_keys))

\* The value a hypothesis stands for, from the original value alone.
HypothesisValue(test, name) ==
    CASE test = "test1"  -> DictWithout(value, {name})
      [] test = "test2"  -> DictWithout(value, Range(name))
      [] test = "test3"  -> DictOnly(value, Range(core_keys))
      [] test = "test3b" -> DictOnly(value, Range(core_keys) \cup {name})
      [] test = "test4"  -> value
      [] test = "test5"  ->
            LET original_path == DictItem(value, "path").s
                path_val == CASE name = "Original" -> original_path
                              [] name = "Forward slashes" ->
                                    Replace(original_path, "\\", "/")
                              [] name = "Double backslash" ->
                                    Replace(original_path, "\\", "\\\\")
            IN  DictSet(value, "path", PyStr(path_val))

\* The MAC of a hypothesis: of its value in its format under the path.
HypothesisMac(test, name) ==
    LET sorted_val == sort_dict_recursive(HypothesisValue(test, name))
        json == IF test = "test4" THEN format_json(name, sorted_val)
                ELSE json_dumps(sorted_val, ",", ":")
    IN  hmac_sha256(seed, device_id \o path \o json)

\* The separator pairs of the formats of TEST 4.
SeparatorPairs == {<<",", ":">>, <<",", ": ">>, <<", ", ":">>, <<", ", ": ">>}

\* The value transforms of the search: the unchanged value and the
\* hypotheses of TEST 1, 2, 3 and 5.
ValueTransforms ==
    {<<"identity", "">>}
    \cup {<<"test1", k>> : k \in Range(DictKeys(value))}
    \cup {<<"test2", l>> : l \in Range(ExcludeLists)}
    \cup {<<"test3", "Core keys only">>}
    \cup {<<"test3b", k>> : k \in Range(DictKeys(value)) \ Range(core_keys)}
    \cup {<<"test5", n>> : n \in {"Original", "Forward slashes", "Double backslash"}}

\* No MAC computed so far is the expected one.
NothingMatched == \A i \in 1..Len(candidates) : candidates[i].mac # expected_mac

StagesLeft ==
    CASE pc = "test1"     -> 8
      [] pc = "test2"     -> 7
      [] pc = "test3"     -> 6
      [] pc = "test3b"    -> 5
      [] pc = "test4"     -> 4
      [] pc = "test5"     -> 3
      [] pc = "test5loop" -> 2
      [] pc = "sample"    -> 1
      [] pc \in {"finished", "crashed"} -> 0

\* The iterations the running loop has left (0 outside the loops).
IterationsLeft ==
    CASE pc \in {"test1", "test3b"} -> Len(value.entries) - idx
      [] pc = "test2"     -> 6 - idx
      [] pc = "test4"     -> 5 - idx
      [] pc = "test5loop" -> 3 - idx
      [] OTHER            -> 0

\* A number that is 0 exactly when the run has ended.
Remaining == StagesLeft * (Len(value.entries) + 7) + IterationsLeft

\* C19. The search always comes to an end: every step makes the natural
\* number Remaining smaller, a run that has not ended (by the last statement
\* or by the KeyError of TEST 5) is inside the range of its loop, where a
\* step can be taken, and at no point have more MAC computations been made
\* than two for each top-level key and 6 + 1 + 5 + 3 for the fixed lists.
C19_SearchTerminates ==
    /\ [](/\ Remaining \in Nat
          /\ IterationsLeft \in Nat
          /\ Remaining = 0 <=> pc \in {"finished", "crashed"}
          /\ Len(candidates) <= 2 * Len(value.entries) + 15)
    /\ [][Remaining' < Remaining]_vars

\* C19 case: a run on a three-key value whose expected MAC no hypothesis
\* gives has ended.
C19_Witness ==
    /\ pc = "finished"
    /\ expected_mac = ForeignMac
    /\ Len(value.entries) = 3
    /\ output[Len(output)].line = "SAMPLE"

\* C20. A printed MATCH names a hypothesis that was evaluated and whose own
\* MAC, made from the original value transformed as the hypothesis says,
\* in its format and under the path, is the expected MAC.
C20_NoFalsePositive ==
    \A i \in 1..Len(output) :
        output[i].line = "MATCH" =>
            /\ \E j \in 1..Len(candidates) :
                    /\ candidates[j].test = output[i].test
                    /\ candidates[j].name = output[i].name
                    /\ candidates[j].mac = expected_mac
            /\ HypothesisMac(output[i].test, output[i].name) = expected_mac

\* C20 case: excluding ['commands'] was printed as a match after an
\* exclusion list that did not match.
C20_Witness ==
    /\ Len(output) >= 3
    /\ output[2] = ResultLine(FALSE, "test2", <<"active_permissions">>)
    /\ output[3] = ResultLine(TRUE, "test2", <<"commands">>)

\* The groups of hypotheses the run has been through, by the position of
\* the script: TEST 5 has run once its loop is over, not when the script
\* ended in the KeyError of line 174.
GroupsRun ==
    CASE pc = "test1"  -> {}
      [] pc = "test2"  -> {"test1"}
      [] pc = "test3"  -> {"test1", "test2"}
      [] pc = "test3b" -> {"test1", "test2", "test3"}
      [] pc = "test4"  -> {"test1", "test2", "test3", "test3b"}
      [] pc \in {"test5", "test5loop", "crashed"} ->
            {"test1", "test2", "test3", "test3b", "test4"}
      [] pc \in {"sample", "finished"} ->
            {"test1", "test2", "test3", "test3b", "test4", "test5"}

\* No MAC computed by the group is the expected one.
GroupUnmatched(g) ==
    \A i \in 1..Len(candidates) :
        candidates[i].test = g => candidates[i].mac # expected_mac

\* C21 as claimed. Search exhaustion is always surfaced: for every group of
\* hypotheses the run has been through in which candidates were evaluated
\* and none gave the expected MAC, the output holds a line of that group
\* saying that nothing matched.
C21_ExhaustionSurfaced_Claimed ==
    \A g \in GroupsRun :
        (Len(CandidatesOf(g)) > 0 /\ GroupUnmatched(g)) =>
            \E i \in 1..Len(output) :
                output[i].line = "NO MATCH" /\ output[i].test = g

C25_DropSingleKey ==
    LET removed == CandidatesOf("test1")
        keys    == Range(DictKeys(value))
    IN  /\ Len(removed) <= Cardinality(keys)
        /\ removed = SubSeq(candidates, 1, Len(removed))
        /\ \A i \in 1..Len(removed) :
              /\ removed[i].name \in keys
              /\ Cardinality({j \in keys : StrLess(j, removed[i].name)}) = i - 1
              /\ i < Len(removed) => removed[i].mac # expected_mac
        /\ Len(removed) = Len(candidates) =>
              \A i \in 1..Len(removed) :
                 LET k == removed[i].name
                     c == removed[i].val
                 IN  /\ IsDict(c)
                     /\ DictKeys(c) = SelectSeq(DictKeys(value), LAMBDA j : j # k)
                     /\ \A j \in keys \ {k} : DictItem(c, j) = DictItem(value, j)
                     /\ removed[i].json = json_dumps(sort_dict_recursive(c), ",", ":")
                     /\ removed[i].mac =
                           hmac_sha256(seed, device_id \o path \o removed[i].json)
        /\ pc # "test1" =>
              \/ Len(removed) = Cardinality(keys)
              \/ /\ Len(removed) > 0
                 /\ removed[Len(removed)].mac = expected_mac

\* C25 case: TEST 1 is over without a match on a value of three keys, one
\* of them holding a dict; the candidate that dropped the key "events" still
\* holds the nested keys of "manifest".
C25_Witness ==
    /\ pc = "test2"
    /\ DictKeys(value) = <<"path", "manifest", "events">>
    /\ Len(candidates) = 3
    /\ NothingMatched
    /\ candidates[1].name = "events"
    /\ candidates[1].json = "{\"manifest\":{\"key\":1,\"name\":\"é\"},\"path\":\"C:\\\\e\"}"
    /\ DictKeys(candidates[2].val) = <<"path", "events">>

-----------------------------------------------------------------------------
(* Properties of the operations on objects (SpecObjects) *)

\* The identities of the dicts and lists reached from an object.
RECURSIVE ContainersOf(_, _)
ContainersOf(h, id) ==
    IF IsDict(h[id]) THEN
        {id} \cup UNION {ContainersOf(h, h[id].entries[i][2]) :
                            i \in 1..Len(h[id].entries)}
    ELSE IF IsList(h[id]) THEN
        {id} \cup UNION {ContainersOf(h, h[id].items[i]) : i \in 1..Len(h[id].items)}
    ELSE {}

\* C23. No operation changes its input: after any sequence of calls of
\* prune_empty_recursive and sort_dict_recursive and of value transforms of
\* the search (key removal, key exclusion, key restriction, the copy of
\* TEST 5 and the replacements of its 'path' entry), each followed by its
\* MAC computation, every object of the loaded value is as it was loaded
\* and the value reads as before; every dict and list of the result of
\* prune_empty_recursive and of sort_dict_recursive is a new object, and a
\* transform's result is a new dict.
C23_NoInputMutation ==
    /\ Loaded = LoadValue(<<>>, value).h
    /\ Deref(heap, ValueRef) = value
    /\ pc = "pruned" =>
          /\ Deref(heap, ref) = prune_empty_recursive(value)
          /\ \A id \in ContainersOf(heap, ref) : id > ValueRef
    /\ pc = "sorted" =>
          /\ Deref(heap, ref) = sort_dict_recursive(value)
          /\ \A id \in ContainersOf(heap, ref) : id > ValueRef
    /\ pc \in {"transformed", "copied", "replaced"} =>
          /\ ref > ValueRef
          /\ IsDict(heap[ref])

\* C23 case: the 'path' entry of the copy has been replaced and the value
\* still holds the original path.
C23_Witness ==
    /\ pc = "replaced"
    /\ Len(value.entries) = 3
    /\ DictItem(value, "path") = PyStr("C:\\e")
    /\ DictItem(Deref(heap, ref), "path") = PyStr("C:/e")
    /\ Deref(heap, ValueRef) = value

-----------------------------------------------------------------------------
(* Properties of compute_super_mac (SpecSuper) *)

\* The sequence without its i-th element.
RemoveAt(seq, i) == [j \in 1..(Len(seq) - 1) |-> IF j < i THEN seq[j] ELSE seq[j + 1]]

\* C24. The super-MAC is the HMAC over the sorted-key canonical string of
\* the whole table: the string is the JSON object of the paths in ascending
\* order, each with its MAC, whatever the order of the records, and the
\* super-MAC is computed over the device id followed by that string; the
\* table with any one record deleted, or with a record for any further path
\* inserted at any place, has a different string, while the MACs of the
\* other records are as before.
C24_SuperMacCoversTable ==
    pc = "done" =>
        /\ value_json = json_dumps(sort_dict_recursive(MacTable(file_macs)), ",", ":")
        /\ calculated_mac = hmac_sha256(seed, device_id \o value_json)
        /\ \A i \in 1..Len(file_macs) :
              SuperMacString(RemoveAt(file_macs, i)) # value_json
        /\ \A p \in SuperPaths \ {file_macs[i][1] : i \in 1..Len(file_macs)} :
              \A m \in MacTexts, at \in 0..Len(file_macs) :
                 SuperMacString(SubSeq(file_macs, 1, at) \o << <<p, m>> >> \o
                                SubSeq(file_macs, at + 1, Len(file_macs)))
                    # value_json

\* C24 case: the super-MAC of a table of three records given in descending
\* order of their paths.
C24_Witness ==
    /\ pc = "done"
    /\ [i \in 1..Len(file_macs) |-> file_macs[i][1]] = <<"c", "a.b", "a">>
    /\ SubSeq(value_json, 1, 6) = "{\"a\":\""
    /\ Len(value_json) = 2 + (3 * 69) + 5 + 2

-----------------------------------------------------------------------------
(* Properties of the serialization experiments (SpecDebug) *)

\* The values that hold the entries of the dict v in another insertion
\* order at the top level.
TopLevelReorderings(v) ==
    {PyDict([i \in 1..Len(v.entries) |-> v.entries[perm[i]]]) :
        perm \in Perms(Len(v.entries))}

\* C26. Without key sorting the string follows insertion order: the string
\* of the no-sorting experiment writes the top-level keys in the order of
\* the value, and the same entries inserted in any other order give a
\* different string there and the same strings in the two sorted
\* experiments; the maps {"a":1,"b":2} and {"b":2,"a":1} give {"a":1,"b":2}
\* and {"b":2,"a":1} without sorting and both {"a":1,"b":2} with sorting.
C26_InsertionOrder ==
    pc = "key_order" =>
        /\ output[3].json =
              "{" \o Join([i \in 1..Len(value.entries) |->
                              JsonString(value.entries[i][1]) \o ":" \o
                              json3(value.entries[i][2])], ",") \o "}"
        /\ \A w \in TopLevelReorderings(value) :
              /\ json1(w) = output[1].json
              /\ json2(w) = output[2].json
              /\ w # value => json3(w) # output[3].json
        /\ value \in ScenarioMaps =>
              /\ output[1].json = "{\"a\":1,\"b\":2}"
              /\ output[2].json = "{\"a\":1,\"b\":2}"
              /\ output[3].json = (IF value.entries[1][1] = "a"
                                   THEN "{\"a\":1,\"b\":2}" ELSE "{\"b\":2,\"a\":1}")

\* C26 case: the three experiments have run on {"b":2,"a":1}.
C26_Witness ==
    /\ pc = "key_order"
    /\ value = PyDict(<< <<"b", PyInt(2)>>, <<"a", PyInt(1)>> >>)
    /\ output[1].json = "{\"a\":1,\"b\":2}"
    /\ output[3].json = "{\"b\":2,\"a\":1}"

-----------------------------------------------------------------------------
(* Properties of main on a capture with a transplanted MAC (SpecTransplant) *)

\* device id, path and canonical string of the record at path p, written
\* one after the other.
Concatenated(device, p) ==
    device \o p \o value_to_json_chromium(get_value_at_path(secure_prefs, p))

\* Device ids, paths and values that give the messages of the drawn
\* records with the boundaries between the three parts at other places.
ShiftedInputs ==
    {"D1", "D", "D1a"} \X ({"a.b", "1a.b", ".b"} \cup TransplantPaths)
        \X TransplantValues

\* C30. The MAC depends on device id, path and canonical string only
\* through their concatenation: the MAC held for the record at a.b verifies
\* for the record at another path exactly when the two concatenations are
\* the same string (and the MACs are in the letter case of the digest), and
\* any device id, path and value whose concatenation is the message of the
\* record evaluated last have its MAC under the same seed.
C30_ConcatenationOnly ==
    /\ \A i \in 1..Len(output) :
          output[i].line \in {"PASS", "FAIL"} =>
              ( output[i].line = "PASS" <=>
                   /\ Concatenated(device_id, output[i].path)
                         = Concatenated(device_id, "a.b")
                   /\ ExpectedFor(output[i].path).hexcase = "upper" )
    /\ LastEvaluated =>
          \A t \in ShiftedInputs :
              (t[1] \o t[2] \o value_to_json_chromium(t[3]) = message)
                  => calculate_mac(seed, t[1], t[2], t[3]) = calculated_mac

\* C30 case: the snapshot holds 1 at a.b and nothing at a.b1, and the MAC of
\* the record at a.b has verified for the record at a.b1.
C30_Witness ==
    /\ get_value_at_path(secure_prefs, "a.b") = PyInt(1)
    /\ Len(output) = 2
    /\ output[1] = [line |-> "PASS", path |-> "a.b"]
    /\ output[2] = [line |-> "PASS", path |-> "a.b1"]
    /\ value = PyNone
    /\ message = "D1a.b1"

=============================================================================
